---------------------------- MODULE Spec2Model ----------------------------
(***************************************************************************)
(* Model of MemberListMover.plugin.js (class MoveMembersWrap): the         *)
(* reconciliation engine that keeps Discord's member list under the        *)
(* channel sidebar.                                                        *)
(*                                                                         *)
(* The state is split in four records:                                     *)
(*   eng : the fields of the plugin object and the window flag             *)
(*         window.bdResizeListenerAdded;                                   *)
(*   dom : the host tree (container = membersWrap, upper region =          *)
(*         sidebarList, lower boundary marker = userIDSection, inner       *)
(*         content = membersListContainer) with the inline styles the      *)
(*         plugin reads and writes, and the plugin's own two nodes with    *)
(*         their children (the handle's indicator, the wrapper's           *)
(*         sub-wrapper and its button) and the inline styles, text and     *)
(*         hover handlers the plugin gives them;                           *)
(*   env : the browser side: connected MutationObservers, their            *)
(*         undelivered records and their transient registrations on        *)
(*         removed nodes, pending animation-frame callbacks and            *)
(*         timers, registered window listeners, BdApi's stored data;       *)
(*   gh  : history variables used only to state properties.                *)
(*                                                                         *)
(* Handlers are operators from a state record s = [eng, dom, env, gh] to   *)
(* the state after the handler returned; an action applies one handler.    *)
(*                                                                         *)
(* Units: proportions are integers in thousandths (0.5 = 500); lengths     *)
(* written to styles are integers in thousandths of a pixel.               *)
(*                                                                         *)
(* JavaScript is single threaded and MutationObserver callbacks are        *)
(* microtasks: records queued by a task are delivered before the next      *)
(* timer, frame callback or event runs.  Engine actions are therefore      *)
(* enabled only when no record is waiting for a connected observer.        *)
(***************************************************************************)
EXTENDS Integers, Sequences, FiniteSets, TLC

VARIABLES eng, dom, env, gh

vars == <<eng, dom, env, gh>>

-----------------------------------------------------------------------------
(* Program constants *)

RESIZE_HANDLE_HEIGHT == 16
BUTTON_WRAPPER_HEIGHT == 8
OUR_UI_HEIGHT_PX == RESIZE_HANDLE_HEIGHT + BUTTON_WRAPPER_HEIGHT
MIN_HEIGHT_PERCENTAGE == 50
PIXEL_TOLERANCE == 100

(* Bounds of the model *)

\* start() may be called again while running; each call leaks one interval.
MaxIntervals == 2
\* history counters saturate here
MaxCount == 2

\* "property not set" for a numeric inline style
Unset == 0 - 1

\* Host geometries: top of the upper region, available height
\* (userIDSection.top - sidebarList.top), left and width of the upper region,
\* all in pixels.  Geometry 3 is the transient "no room" state.
GeomTable ==
  << [top |-> 48, avail |-> 600, left |-> 72, width |-> 240],
     [top |-> 48, avail |-> 400, left |-> 72, width |-> 240],
     [top |-> 48, avail |-> 0,   left |-> 72, width |-> 240],
     [top |-> 48, avail |-> 16,  left |-> 72, width |-> 240] >>

Geoms == 1 .. Len(GeomTable)
\* the geometries the window takes in the main specification
MainGeoms == {1, 3}

\* the geometries of the drag specification: every one with room
DragGeoms == {g \in Geoms : GeomTable[g].avail > 0}

\* clientY values of pointer events, in pixels
PointerYs == {348}
\* clientY values of the drag specification: above the upper region, both
\* clamps, exact ties (1/16), inexact ties (29/400), no tie, below the marker
DragYs == {40, 49, 77, 148, 348, 700}

-----------------------------------------------------------------------------
(* Small helpers *)

Range(f) == {f[i] : i \in DOMAIN f}

Max(a, b) == IF a >= b THEN a ELSE b
Min(a, b) == IF a <= b THEN a ELSE b
Abs(a) == IF a >= 0 THEN a ELSE -a
Inc(n) == Min(n + 1, MaxCount)

\* The id the browser hands out for a new callback, timer or observer.
\* Real ids are never reused; only their being distinct from the pending
\* ones matters, so the smallest free one stands for "a new id".
FreshId(pending) == CHOOSE n \in 1 .. (Cardinality(pending) + 1) :
                      /\ n \notin pending
                      /\ \A m \in 1 .. (n - 1) : m \in pending

\* JavaScript truthiness of this.isMoved, which holds false, true or (after
\* start() loaded what a drag stored under the mode key) an object.
Truthy(v) == v # "false"

\* !v
Negate(v) == IF Truthy(v) THEN "false" ELSE "true"

-----------------------------------------------------------------------------
(* The tree: queries *)

\* document.querySelector('[class*="membersWrap"]')
HasWrap(s) == s.dom.wrapPresent
\* document.querySelector('[class*="sidebarList"]')
HasSidebar(s) == s.dom.sidebarPresent
\* document.querySelector('[class*="sidebarList"] ~ section')
HasSection(s) == s.dom.sidebarPresent /\ s.dom.sectionPresent
\* membersWrap.querySelector('[class*="members"]')
HasInner(s) == s.dom.wrapPresent /\ s.dom.innerPresent
\* document.querySelector("#bd-members-list-container")
HasInnerById(s) == HasInner(s) /\ s.dom.innerId

HandleInWrap(s) == "handle" \in Range(s.dom.kids)
WrapperInWrap(s) == "wrapper" \in Range(s.dom.kids)

\* node.parentNode is not null
HandleHasParent(s) == HandleInWrap(s) \/ s.dom.handleStale
WrapperHasParent(s) == WrapperInWrap(s) \/ s.dom.wrapperInInner \/ s.dom.wrapperStale

\* the node is connected to the document
HandleInDoc(s) == HasWrap(s) /\ HandleInWrap(s)
WrapperInDoc(s) == HasWrap(s) /\ (WrapperInWrap(s) \/ (s.dom.innerPresent /\ s.dom.wrapperInInner))

\* membersWrap.contains(node): any depth
WrapContainsHandle(s) == HandleInWrap(s)
WrapContainsWrapper(s) == WrapperInWrap(s) \/ (s.dom.innerPresent /\ s.dom.wrapperInInner)

\* the children of the control nodes: the indicator <div> of the handle,
\* the sub-wrapper of the wrapper and the button inside the sub-wrapper
\* resizeHandle.querySelector("div")
HandleHasIndicator(s) == s.dom.hasIndicator
\* wrapperDiv.querySelector("#bd-move-button-sub-wrapper")
WrapperHasSub(s) == s.dom.hasSub
\* wrapperDiv.querySelector("#bd-move-members-button")
WrapperHasButton(s) == s.dom.hasSub /\ s.dom.hasButton

\* A mutation of a node is reported to the observer of document.body when
\* the node is in the document, and also when the node was removed from the
\* document since the observer was last notified: a removal leaves a
\* transient registration on the removed node, which lasts until the next
\* notification (DOM standard, "remove").
HandleObserved(s) == HandleInDoc(s) \/ "handle" \in s.env.transient
WrapperObserved(s) == WrapperInDoc(s) \/ "wrapper" \in s.env.transient
SubObserved(s) == WrapperObserved(s) /\ s.dom.hasSub
ButtonObserved(s) == WrapperObserved(s) /\ s.dom.hasSub /\ s.dom.hasButton
IndicatorObserved(s) == HandleObserved(s) /\ s.dom.hasIndicator

\* getBoundingClientRect of the upper region, thousandths of a pixel.  The
\* host lays the upper region out down to the boundary marker unless an
\* inline height overrides it.
Geom(s) == GeomTable[s.dom.geom]
SidebarTop(s) == Geom(s).top * 1000
SidebarLeft(s) == Geom(s).left * 1000
SidebarWidth(s) == Geom(s).width * 1000
SidebarHeight(s) == IF s.dom.sidebarStyle.height = Unset
                    THEN Geom(s).avail * 1000
                    ELSE s.dom.sidebarStyle.height
SidebarBottom(s) == SidebarTop(s) + SidebarHeight(s)
\* userIDSectionRect.top - sidebarListRect.top, in pixels
AvailableHeight(s) == Geom(s).avail

NoWrapStyle ==
  [position |-> "", width |-> Unset, height |-> Unset, left |-> Unset,
   top |-> Unset, transform |-> "", minWidth |-> "", display |-> "",
   flexDirection |-> "", zIndex |-> ""]
NoSidebarStyle == [height |-> Unset, paddingBottom |-> "", navPaddingBottom |-> ""]
NoInnerStyle == [height |-> Unset, width |-> "", overflowY |-> ""]

-----------------------------------------------------------------------------
(* The tree: writes.  A write that changes nothing queues no record; a     *)
(* write to a node that is neither in the document nor freshly removed     *)
(* from it is not observed.                                                *)

\* Queue mutation records of the given kinds for the connected observer.
Record(s, kinds, observed) ==
  IF observed /\ s.env.observers # {}
  THEN [s EXCEPT !.env.batch = @ \cup kinds]
  ELSE s

SetWrapStyle(s, st) ==
  IF st = s.dom.wrapStyle THEN s
  ELSE Record([s EXCEPT !.dom.wrapStyle = st], {"styleWrap"}, HasWrap(s))

\* style of sidebarList and of its nav child
SetSidebarStyle(s, st) ==
  LET a == IF st.height # s.dom.sidebarStyle.height
              \/ st.paddingBottom # s.dom.sidebarStyle.paddingBottom
           THEN {"styleSidebar"} ELSE {}
      b == IF st.navPaddingBottom # s.dom.sidebarStyle.navPaddingBottom
           THEN {"styleOther"} ELSE {}
  IN Record([s EXCEPT !.dom.sidebarStyle = st], a \cup b, HasSidebar(s))

SetInnerStyle(s, st) ==
  IF st = s.dom.innerStyle THEN s
  ELSE Record([s EXCEPT !.dom.innerStyle = st],
              {IF s.dom.innerId THEN "styleInnerId" ELSE "styleOther"}, HasInner(s))

SetHandleDisplay(s, d) ==
  IF d = s.dom.handleDisplay THEN s
  ELSE Record([s EXCEPT !.dom.handleDisplay = d], {"styleHandle"}, HandleObserved(s))

SetWrapperDisplay(s, d) ==
  IF d = s.dom.wrapperDisplay THEN s
  ELSE Record([s EXCEPT !.dom.wrapperDisplay = d], {"styleWrapper"}, WrapperObserved(s))

\* wrapperDiv.style.backgroundColor = ...
SetWrapperBg(s, c) ==
  IF c = s.dom.wrapperBg THEN s
  ELSE Record([s EXCEPT !.dom.wrapperBg = c], {"styleWrapper"}, WrapperObserved(s))

\* subContainerDiv.style.maxHeight = ...
SetSubMaxHeight(s, h) ==
  IF h = s.dom.subMaxHeight THEN s
  ELSE Record([s EXCEPT !.dom.subMaxHeight = h], {"styleOther"}, SubObserved(s))

\* button.style.backgroundColor = ...
SetButtonBg(s, c) ==
  IF c = s.dom.buttonBg THEN s
  ELSE Record([s EXCEPT !.dom.buttonBg = c], {"styleOther"}, ButtonObserved(s))

\* button.textContent = ...: the text node of the button is replaced; the
\* host's engine (Chromium) leaves the node alone when the text is the same
SetButtonText(s, v) ==
  IF v = s.dom.visual THEN s
  ELSE Record([s EXCEPT !.dom.visual = v], {"childList"}, ButtonObserved(s))

\* handleIndicator.style.opacity = ...
SetIndicatorOpacity(s, o) ==
  IF o = s.dom.indicatorOpacity THEN s
  ELSE Record([s EXCEPT !.dom.indicatorOpacity = o], {"styleOther"}, IndicatorObserved(s))

\* the transient registration a removal from the document leaves on the node
Transient(s, node, wasInDoc) ==
  IF wasInDoc /\ s.env.observers # {}
  THEN [s EXCEPT !.env.transient = @ \cup {node}]
  ELSE s

\* node.parentNode.removeChild(node)
RemoveHandle(s) ==
  Transient(Record([s EXCEPT !.dom.kids = SelectSeq(@, LAMBDA k : k # "handle"),
                             !.dom.handleStale = FALSE],
                   {"childList"}, HandleInDoc(s)),
            "handle", HandleInDoc(s))

RemoveWrapper(s) ==
  Transient(Record([s EXCEPT !.dom.kids = SelectSeq(@, LAMBDA k : k # "wrapper"),
                             !.dom.wrapperInInner = FALSE,
                             !.dom.wrapperStale = FALSE],
                   {"childList"}, WrapperInDoc(s)),
            "wrapper", WrapperInDoc(s))

\* membersWrap.prepend(this.resizeHandle)
PrependHandleToWrap(s) ==
  LET s1 == RemoveHandle(s)
  IN Record([s1 EXCEPT !.dom.kids = <<"handle">> \o @], {"childList"}, HasWrap(s1))

\* membersWrap.insertBefore(this.wrapperDiv, this.resizeHandle.nextSibling)
InsertWrapperAfterHandle(s) ==
  LET s1 == RemoveWrapper(s)
      i  == CHOOSE j \in DOMAIN s1.dom.kids : s1.dom.kids[j] = "handle"
  IN Record([s1 EXCEPT !.dom.kids = SubSeq(@, 1, i) \o <<"wrapper">> \o SubSeq(@, i + 1, Len(@))],
            {"childList"}, HasWrap(s1))

\* membersWrap.appendChild(this.wrapperDiv)
AppendWrapperToWrap(s) ==
  LET s1 == RemoveWrapper(s)
  IN Record([s1 EXCEPT !.dom.kids = @ \o <<"wrapper">>], {"childList"}, HasWrap(s1))

\* membersListContainer.prepend(this.wrapperDiv)
PrependWrapperToInner(s) ==
  LET s1 == RemoveWrapper(s)
  IN Record([s1 EXCEPT !.dom.wrapperInInner = TRUE], {"childList"}, HasInner(s1))

\* membersListContainer.id = "bd-members-list-container" (the observer's
\* attributeFilter is ["style"]: no record)
EnsureInnerId(s) == IF HasInner(s) THEN [s EXCEPT !.dom.innerId = TRUE] ELSE s

-----------------------------------------------------------------------------
(* Reapply scheduler *)

\* A scheduler without the cooldown test: every request schedules a frame
\* and a timer of its own.
queueLayoutReapply_Unthrottled(s) ==
  LET f == FreshId(s.env.frames)
      t == FreshId(s.env.cooldowns)
  IN [s EXCEPT !.eng.isThrottling = TRUE,
               !.eng.pendingThrottleCall = FALSE,
               !.eng.animationFrameId = f,
               !.env.frames = @ \cup {f},
               !.eng.reapplyTimeout = t,
               !.env.cooldowns = @ \cup {t},
               !.gh.owed = TRUE,
               !.gh.winExecs = 0]

\* queueLayoutReapply(): the part that runs synchronously in the caller.
\* The frame callback and the cooldown callback are FrameCallback and
\* CooldownTimer below.
queueLayoutReapply(s) ==
  LET old == s.eng.animationFrameId
      \* cancelAnimationFrame(this.animationFrameId)
      s1 == IF old # 0
            THEN [s EXCEPT !.env.frames = @ \ {old}, !.eng.animationFrameId = 0]
            ELSE s
      s2 == [s1 EXCEPT !.gh.owed = TRUE]
  IN IF s2.eng.isThrottling
     THEN [s2 EXCEPT !.eng.pendingThrottleCall = TRUE]
     ELSE LET f == FreshId(s2.env.frames)
              t == FreshId(s2.env.cooldowns)
          IN [s2 EXCEPT !.eng.isThrottling = TRUE,
                        !.eng.pendingThrottleCall = FALSE,
                        !.eng.animationFrameId = f,
                        !.env.frames = @ \cup {f},
                        !.eng.reapplyTimeout = t,
                        !.env.cooldowns = @ \cup {t},
                        !.gh.winExecs = 0]

-----------------------------------------------------------------------------
(* Style applicator and control surface *)

\* A release of the upper region that removes the height only.
resetSidebarListStyles_KeepPadding(s) ==
  IF HasSidebar(s) THEN SetSidebarStyle(s, [s.dom.sidebarStyle EXCEPT !.height = Unset]) ELSE s

\* _resetSidebarListStyles()
resetSidebarListStyles(s) ==
  IF HasSidebar(s) THEN SetSidebarStyle(s, NoSidebarStyle) ELSE s

\* updateButtonVisualState(button, wrapper, subContainer, isMovedState):
\* text, colour and hover handlers of the button, colour of the wrapper.
\* dom.visual is the text of the button ("orig": Move, "moved": Reset
\* Layout), dom.buttonHover the pair of hover handlers last installed on it;
\* the colours are named after the mode they belong to.
updateButtonVisualState(s, buttonElement, wrapperElement, subContainerElement, isMovedState) ==
  IF ~buttonElement \/ ~wrapperElement \/ ~subContainerElement
     \/ ~s.eng.resizeHandle \/ ~s.eng.handleIndicator
  THEN s
  ELSE LET v == IF Truthy(isMovedState) THEN "moved" ELSE "orig"
           Text(t) == SetButtonText(t, v)
           Colour(t) == SetButtonBg(t, v)
           Hover(t) == [t EXCEPT !.dom.buttonHover = v]
           Wrapper(t) == SetWrapperBg(t, v)
       IN Wrapper(Hover(Colour(Text(s))))

\* A reset that forgets the inner-content node.
applyOriginalLayoutStyles_KeepInner(s) ==
  LET Wrap(t) == IF HasWrap(t) THEN SetWrapStyle(t, NoWrapStyle) ELSE t
      Sidebar(t) == IF HasSidebar(t) THEN resetSidebarListStyles(t) ELSE t
      Visual(t) ==
        IF t.eng.wrapperDiv /\ t.eng.subContainerDiv /\ t.eng.button
        THEN updateButtonVisualState([t EXCEPT !.eng.isMoved = "false"],
                                     t.eng.button, t.eng.wrapperDiv,
                                     t.eng.subContainerDiv, "false")
        ELSE t
  IN Visual(Sidebar(Wrap(s)))

\* applyOriginalLayoutStyles()
applyOriginalLayoutStyles(s) ==
  LET Wrap(t) == IF HasWrap(t) THEN SetWrapStyle(t, NoWrapStyle) ELSE t
      Sidebar(t) == IF HasSidebar(t) THEN resetSidebarListStyles(t) ELSE t
      Inner(t) == IF HasInnerById(t) THEN SetInnerStyle(t, NoInnerStyle) ELSE t
      Visual(t) ==
        IF t.eng.wrapperDiv /\ t.eng.subContainerDiv /\ t.eng.button
        THEN updateButtonVisualState([t EXCEPT !.eng.isMoved = "false"],
                                     t.eng.button, t.eng.wrapperDiv,
                                     t.eng.subContainerDiv, "false")
        ELSE t
  IN Visual(Inner(Sidebar(Wrap(s))))

\* addMoveButton(): creates the two control-surface nodes in memory (a new
\* node starts detached with the styles of its cssText) and attaches the
\* event handlers.
\* An existing node is kept and the references to its children are looked
\* up in it again (source lines 575, 656-657).
addMoveButton(s) ==
  LET Handle(t) ==
        IF ~t.eng.resizeHandle
        THEN [t EXCEPT !.eng.resizeHandle = TRUE,
                       !.eng.handleIndicator = TRUE,
                       !.dom.handleDisplay = "",
                       !.dom.hasIndicator = TRUE,
                       !.dom.indicatorOpacity = "0.25",
                       !.dom.handleStale = FALSE]
        ELSE [t EXCEPT !.eng.handleIndicator = HandleHasIndicator(t)]
      Wrapper(t) ==
        IF ~t.eng.wrapperDiv
        THEN [t EXCEPT !.eng.wrapperDiv = TRUE,
                       !.eng.subContainerDiv = TRUE,
                       !.eng.button = TRUE,
                       !.dom.wrapperDisplay = "flex",
                       !.dom.wrapperBg = "orig",
                       !.dom.hasSub = TRUE,
                       !.dom.subMaxHeight = "0",
                       !.dom.hasButton = TRUE,
                       !.dom.visual = "orig",
                       !.dom.buttonBg = "orig",
                       !.dom.buttonHover = "none",
                       !.dom.wrapperInInner = FALSE,
                       !.dom.wrapperStale = FALSE]
        ELSE [t EXCEPT !.eng.subContainerDiv = WrapperHasSub(t),
                       !.eng.button = WrapperHasSub(t) /\ t.dom.hasButton]
  IN IF ~HasWrap(s) THEN s ELSE Wrapper(Handle(EnsureInnerId(s)))

\* A styling procedure that reserves the height of the drag handle only.
applyMovedLayoutStyles_HandleOnly(s, inner, calculatedSidebarHeight, calculatedMembersTotalHeight, rect) ==
  LET remaining == calculatedMembersTotalHeight - RESIZE_HANDLE_HEIGHT * 1000
      Wrap(t) == SetWrapStyle(t,
              [position |-> "fixed", width |-> rect.width,
               height |-> calculatedMembersTotalHeight, left |-> rect.left,
               top |-> rect.bottom, transform |-> "translateX(0%)",
               zIndex |-> "", minWidth |-> "unset", display |-> "flex",
               flexDirection |-> "column"])
      Sidebar(t) == SetSidebarStyle(t,
              [height |-> calculatedSidebarHeight, paddingBottom |-> "0px",
               navPaddingBottom |-> "0px"])
      Inner(t) == IF inner
                  THEN SetInnerStyle(t, [height |-> Max(0, remaining), width |-> "100%",
                                         overflowY |-> "auto"])
                  ELSE t
  IN Inner(Sidebar(Wrap(s)))

\* applyMovedLayoutStyles(membersWrap, sidebarList, membersListContainer,
\*   calculatedSidebarHeight, calculatedMembersTotalHeight, sidebarListRect)
\* rect = [width, left, bottom]; inner says whether membersListContainer
\* was found.
applyMovedLayoutStyles(s, inner, calculatedSidebarHeight, calculatedMembersTotalHeight, rect) ==
  LET remaining == calculatedMembersTotalHeight - OUR_UI_HEIGHT_PX * 1000
      Wrap(t) == SetWrapStyle(t,
              [position |-> "fixed", width |-> rect.width,
               height |-> calculatedMembersTotalHeight, left |-> rect.left,
               top |-> rect.bottom, transform |-> "translateX(0%)",
               zIndex |-> "", minWidth |-> "unset", display |-> "flex",
               flexDirection |-> "column"])
      Sidebar(t) == SetSidebarStyle(t,
              [height |-> calculatedSidebarHeight, paddingBottom |-> "0px",
               navPaddingBottom |-> "0px"])
      Inner(t) == IF inner
                  THEN SetInnerStyle(t, [height |-> Max(0, remaining), width |-> "100%",
                                         overflowY |-> "auto"])
                  ELSE t
  IN Inner(Sidebar(Wrap(s)))

\* A MOVED branch that styles the nodes without testing the available height.
MovedPass_NoRoomCheck(s, inner) ==
  [ret |-> FALSE,
   s |-> applyMovedLayoutStyles(s, inner,
                                AvailableHeight(s) * s.eng.sidebarHeightPercentage,
                                AvailableHeight(s) * s.eng.membersHeightPercentage,
                                [width |-> SidebarWidth(s), left |-> SidebarLeft(s),
                                 bottom |-> SidebarBottom(s)])]

\* A MOVED branch that hands the styling procedure the rectangle of the
\* upper region it read before writing the new height.
MovedPass_StaleRect(s, inner) ==
  LET availableHeightForPanels == AvailableHeight(s)
      calculatedSidebarHeight == availableHeightForPanels * s.eng.sidebarHeightPercentage
      calculatedMembersTotalHeight == availableHeightForPanels * s.eng.membersHeightPercentage
      Height(t) == SetSidebarStyle(t, [t.dom.sidebarStyle EXCEPT !.height = calculatedSidebarHeight])
      Styles(t) == applyMovedLayoutStyles(t, inner, calculatedSidebarHeight,
                                          calculatedMembersTotalHeight,
                                          [width |-> SidebarWidth(s), left |-> SidebarLeft(s),
                                           bottom |-> SidebarBottom(s)])
      Handle(t) == IF t.eng.resizeHandle
                   THEN SetHandleDisplay(
                          IF ~WrapContainsHandle(t) THEN PrependHandleToWrap(t) ELSE t,
                          "flex")
                   ELSE t
      Wrapper(t) == IF t.eng.wrapperDiv
                    THEN SetWrapperDisplay(
                           IF ~WrapContainsWrapper(t)
                           THEN IF t.eng.resizeHandle /\ WrapContainsHandle(t)
                                THEN InsertWrapperAfterHandle(t)
                                ELSE AppendWrapperToWrap(t)
                           ELSE t,
                           "flex")
                    ELSE t
      Listener(t) == IF ~t.eng.bdResizeListenerAdded
                     THEN [t EXCEPT !.env.resizeListener = TRUE,
                                    !.eng.bdResizeListenerAdded = TRUE]
                     ELSE t
  IN IF availableHeightForPanels <= 0 THEN [ret |-> TRUE, s |-> s]
     ELSE [ret |-> FALSE, s |-> Listener(Wrapper(Handle(Styles(Height(s)))))]

\* A MOVED branch that leaves a control node where it is when the node
\* still has a parent, even a container that left the document.
MovedPass_KeepParent(s, inner) ==
  LET availableHeightForPanels == AvailableHeight(s)
      calculatedSidebarHeight == availableHeightForPanels * s.eng.sidebarHeightPercentage
      calculatedMembersTotalHeight == availableHeightForPanels * s.eng.membersHeightPercentage
      \* sidebarList.style.height is set, then its rectangle is read again
      Height(t) == SetSidebarStyle(t, [t.dom.sidebarStyle EXCEPT !.height = calculatedSidebarHeight])
      Styles(t) == applyMovedLayoutStyles(t, inner, calculatedSidebarHeight,
                                          calculatedMembersTotalHeight,
                                          [width |-> SidebarWidth(t), left |-> SidebarLeft(t),
                                           bottom |-> SidebarBottom(t)])
      Handle(t) == IF t.eng.resizeHandle
                   THEN SetHandleDisplay(
                          IF ~HandleHasParent(t) THEN PrependHandleToWrap(t) ELSE t,
                          "flex")
                   ELSE t
      Wrapper(t) == IF t.eng.wrapperDiv
                    THEN SetWrapperDisplay(
                           IF ~WrapperHasParent(t)
                           THEN IF t.eng.resizeHandle /\ WrapContainsHandle(t)
                                THEN InsertWrapperAfterHandle(t)
                                ELSE AppendWrapperToWrap(t)
                           ELSE t,
                           "flex")
                    ELSE t
      Listener(t) == IF ~t.eng.bdResizeListenerAdded
                     THEN [t EXCEPT !.env.resizeListener = TRUE,
                                    !.eng.bdResizeListenerAdded = TRUE]
                     ELSE t
  IN IF availableHeightForPanels <= 0 THEN [ret |-> TRUE, s |-> s]
     ELSE [ret |-> FALSE, s |-> Listener(Wrapper(Handle(Styles(Height(s)))))]

\* The MOVED branch of applyCurrentLayoutState (source lines 398-464)
MovedPass(s, inner) ==
  LET availableHeightForPanels == AvailableHeight(s)
      calculatedSidebarHeight == availableHeightForPanels * s.eng.sidebarHeightPercentage
      calculatedMembersTotalHeight == availableHeightForPanels * s.eng.membersHeightPercentage
      \* sidebarList.style.height is set, then its rectangle is read again
      Height(t) == SetSidebarStyle(t, [t.dom.sidebarStyle EXCEPT !.height = calculatedSidebarHeight])
      Styles(t) == applyMovedLayoutStyles(t, inner, calculatedSidebarHeight,
                                          calculatedMembersTotalHeight,
                                          [width |-> SidebarWidth(t), left |-> SidebarLeft(t),
                                           bottom |-> SidebarBottom(t)])
      Handle(t) == IF t.eng.resizeHandle
                   THEN SetHandleDisplay(
                          IF ~WrapContainsHandle(t) THEN PrependHandleToWrap(t) ELSE t,
                          "flex")
                   ELSE t
      Wrapper(t) == IF t.eng.wrapperDiv
                    THEN SetWrapperDisplay(
                           IF ~WrapContainsWrapper(t)
                           THEN IF t.eng.resizeHandle /\ WrapContainsHandle(t)
                                THEN InsertWrapperAfterHandle(t)
                                ELSE AppendWrapperToWrap(t)
                           ELSE t,
                           "flex")
                    ELSE t
      Listener(t) == IF ~t.eng.bdResizeListenerAdded
                     THEN [t EXCEPT !.env.resizeListener = TRUE,
                                    !.eng.bdResizeListenerAdded = TRUE]
                     ELSE t
  IN IF availableHeightForPanels <= 0 THEN [ret |-> TRUE, s |-> s]
     ELSE [ret |-> FALSE, s |-> Listener(Wrapper(Handle(Styles(Height(s)))))]

\* An ORIGINAL branch that leaves the window resize listener registered.
OriginalPass_KeepListener(s, inner) ==
  LET Handle(t) == IF t.eng.resizeHandle
                   THEN SetHandleDisplay(
                          IF HandleHasParent(t) THEN RemoveHandle(t) ELSE t, "none")
                   ELSE t
      Wrapper(t) == IF t.eng.wrapperDiv /\ inner
                    THEN SetWrapperDisplay(
                           IF ~t.dom.wrapperInInner THEN PrependWrapperToInner(t) ELSE t,
                           "flex")
                    ELSE IF t.eng.wrapperDiv /\ WrapperHasParent(t)
                    THEN SetWrapperDisplay(RemoveWrapper(t), "none")
                    ELSE t
  IN Wrapper(Handle(applyOriginalLayoutStyles(s)))

\* The ORIGINAL branch of applyCurrentLayoutState (source lines 465-509)
OriginalPass(s, inner) ==
  LET Handle(t) == IF t.eng.resizeHandle
                   THEN SetHandleDisplay(
                          IF HandleHasParent(t) THEN RemoveHandle(t) ELSE t, "none")
                   ELSE t
      Wrapper(t) == IF t.eng.wrapperDiv /\ inner
                    THEN SetWrapperDisplay(
                           IF ~t.dom.wrapperInInner THEN PrependWrapperToInner(t) ELSE t,
                           "flex")
                    ELSE IF t.eng.wrapperDiv /\ WrapperHasParent(t)
                    THEN SetWrapperDisplay(RemoveWrapper(t), "none")
                    ELSE t
      Listener(t) == IF t.eng.bdResizeListenerAdded
                     THEN [t EXCEPT !.env.resizeListener = FALSE,
                                    !.eng.bdResizeListenerAdded = FALSE]
                     ELSE t
  IN Listener(Wrapper(Handle(applyOriginalLayoutStyles(s))))

\* applyCurrentLayoutState(): one reconciliation pass
applyCurrentLayoutState(s) ==
  LET Controls(t) == IF ~t.eng.button \/ ~t.eng.wrapperDiv \/ ~t.eng.resizeHandle
                     THEN addMoveButton(t) ELSE t
      Mode(t) == IF Truthy(t.eng.isMoved)
                 THEN MovedPass(t, HasInner(s))
                 ELSE [ret |-> FALSE, s |-> OriginalPass(t, HasInner(s))]
      Visual(r) == IF r.ret THEN r.s
                   ELSE updateButtonVisualState(r.s, r.s.eng.button, r.s.eng.wrapperDiv,
                                                r.s.eng.subContainerDiv, r.s.eng.isMoved)
  IN IF ~HasWrap(s) \/ ~HasSidebar(s) \/ ~HasSection(s) THEN s
     ELSE Visual(Mode(Controls(EnsureInnerId(s))))

-----------------------------------------------------------------------------
(* Absence handler *)

\* An absence handler that starts a timer without clearing the previous one.
handleMemberListAbsence_NoClear(s) ==
  LET t == FreshId(s.env.absTimers)
  IN [s EXCEPT !.eng.memberListAbsenceTimer = t,
               !.env.absTimers = @ \cup {t},
               !.gh.armed = TRUE,
               !.gh.armReleases = 0]

\* handleMemberListAbsence(): (re)start the debounce timer
handleMemberListAbsence(s) ==
  LET old == s.eng.memberListAbsenceTimer
      s1 == IF old # 0
            THEN [s EXCEPT !.env.absTimers = @ \ {old}, !.eng.memberListAbsenceTimer = 0]
            ELSE s
      t == FreshId(s1.env.absTimers)
  IN [s1 EXCEPT !.eng.memberListAbsenceTimer = t,
                !.env.absTimers = @ \cup {t},
                !.gh.armed = TRUE,
                !.gh.armReleases = 0]

\* A timer callback that releases without looking for the container.
absenceTimerCallback_AlwaysRelease(s) ==
  [resetSidebarListStyles(s) EXCEPT !.gh.releases = Inc(@),
                                    !.gh.armReleases = Inc(@),
                                    !.gh.released = TRUE,
                                    !.eng.memberListAbsenceTimer = 0]

\* the callback given to setTimeout in handleMemberListAbsence
absenceTimerCallback(s) ==
  LET s1 == IF ~HasWrap(s)
            THEN [resetSidebarListStyles(s) EXCEPT !.gh.releases = Inc(@),
                                                   !.gh.armReleases = Inc(@),
                                                   !.gh.released = TRUE]
            ELSE queueLayoutReapply(s)
  IN [s1 EXCEPT !.eng.memberListAbsenceTimer = 0]

-----------------------------------------------------------------------------
(* Change detector *)

\* kinds of record that set layoutReapplyNeeded (source lines 803-823)
ReapplyKinds == {"styleWrap", "styleSidebar", "styleInnerId", "styleWrapper",
                 "styleHandle", "childList", "wrapAdded"}

\* every kind of record the observer can be handed: childList records
\* (wrapAdded: one whose addedNodes hold the container) and style records
\* by target; styleOther is a style change on any node that is neither the
\* container nor the upper region nor a node with one of the three ids
RecordKinds == ReapplyKinds \cup {"styleOther"}

\* clearTimeout(this.memberListAbsenceTimer); this.memberListAbsenceTimer = null
clearAbsenceTimer(s) ==
  IF s.eng.memberListAbsenceTimer # 0
  THEN [s EXCEPT !.env.absTimers = @ \ {s.eng.memberListAbsenceTimer},
                 !.eng.memberListAbsenceTimer = 0]
  ELSE s

\* An observer callback that leaves the absence timer running when it finds
\* the container present.
observerCallback_NoClear(s, mutationsList) ==
  LET layoutReapplyNeeded == mutationsList \cap ReapplyKinds # {}
      Queue(t) == IF layoutReapplyNeeded THEN queueLayoutReapply(t) ELSE t
      Presence(t) == IF ~HasWrap(t) THEN handleMemberListAbsence(t) ELSE t
  IN Presence(Queue(s))

\* A change detector that queries the presence of the container only
\* after a batch for which it requested a reapply.
observerCallback_PresenceIfRelevant(s, mutationsList) ==
  LET layoutReapplyNeeded == mutationsList \cap ReapplyKinds # {}
      s1 == IF "wrapAdded" \in mutationsList THEN clearAbsenceTimer(s) ELSE s
      s2 == IF layoutReapplyNeeded THEN queueLayoutReapply(s1) ELSE s1
  IN IF ~layoutReapplyNeeded THEN s2
     ELSE IF ~HasWrap(s2) THEN handleMemberListAbsence(s2) ELSE clearAbsenceTimer(s2)

\* A change detector for which every record is relevant.
observerCallback_AnyRecord(s, mutationsList) ==
  LET layoutReapplyNeeded == mutationsList # {}
      s1 == IF "wrapAdded" \in mutationsList THEN clearAbsenceTimer(s) ELSE s
      s2 == IF layoutReapplyNeeded THEN queueLayoutReapply(s1) ELSE s1
  IN IF ~HasWrap(s2) THEN handleMemberListAbsence(s2) ELSE clearAbsenceTimer(s2)

\* the MutationObserver callback of setupObserver, given one batch
observerCallback(s, mutationsList) ==
  LET layoutReapplyNeeded == mutationsList \cap ReapplyKinds # {}
      s1 == IF "wrapAdded" \in mutationsList THEN clearAbsenceTimer(s) ELSE s
      s2 == IF layoutReapplyNeeded THEN queueLayoutReapply(s1) ELSE s1
  IN IF ~HasWrap(s2) THEN handleMemberListAbsence(s2) ELSE clearAbsenceTimer(s2)

\* setupObserver(): a disconnected observer drops its undelivered records
setupObserver(s) ==
  LET old == s.eng.observer
      s1 == IF old # 0
            THEN [s EXCEPT !.env.observers = @ \ {old}, !.env.batch = {},
                           !.env.transient = {}]
            ELSE s
      o == FreshId(s1.env.observers)
  IN [s1 EXCEPT !.eng.observer = o, !.env.observers = @ \cup {o}]

-----------------------------------------------------------------------------
(* Drift auditor *)

\* A comparison that accepts only the exact expected value.
compareFloats_Exact(val1, val2, below) == val1 # Unset /\ val1 = val2

\* compareFloats(parseFloat(style), expected, PIXEL_TOLERANCE); parseFloat
\* of an unset property is NaN, which compares false.  The code compares
\* binary doubles: when the decimal values are exactly 0.1 px apart, the
\* difference of the doubles is just below 0.1 for some operands
\* (240.1 - 240) and just above it for others (348.1 - 348); below says
\* which.
compareFloats(val1, val2, below) ==
  /\ val1 # Unset
  /\ \/ Abs(val1 - val2) < PIXEL_TOLERANCE
     \/ Abs(val1 - val2) = PIXEL_TOLERANCE /\ below

\* presence and visibility checks (source lines 1000-1062)
AuditStructureBad(s) ==
  IF Truthy(s.eng.isMoved)
  THEN \/ ~WrapperInDoc(s) \/ ~WrapperInWrap(s)
       \/ ~HandleInDoc(s)
       \/ (WrapperInDoc(s) /\ (~WrapperHasSub(s) \/ ~WrapperHasButton(s)))
       \/ (HandleInDoc(s) /\ ~HandleHasIndicator(s))
       \/ (HandleInDoc(s) /\ s.dom.handleDisplay # "flex")
       \/ (WrapperInDoc(s) /\ s.dom.wrapperDisplay # "flex")
  ELSE \/ ~WrapperInDoc(s) \/ ~s.dom.wrapperInInner
       \/ HandleInDoc(s)
       \/ (WrapperInDoc(s) /\ (~WrapperHasSub(s) \/ ~WrapperHasButton(s)))
       \/ (WrapperInDoc(s) /\ s.dom.wrapperDisplay # "flex")

\* the lengths the MOVED audit compares with compareFloats
AuditLengths == {"width", "height", "left", "top", "sidebarHeight", "innerHeight"}

\* the lengths of the tree that are exactly PIXEL_TOLERANCE away from the
\* value the MOVED audit expects
AtTolerance(s) ==
  LET available == AvailableHeight(s)
      actual == [width |-> s.dom.wrapStyle.width, height |-> s.dom.wrapStyle.height,
                 left |-> s.dom.wrapStyle.left, top |-> s.dom.wrapStyle.top,
                 sidebarHeight |-> s.dom.sidebarStyle.height,
                 innerHeight |-> s.dom.innerStyle.height]
      expected == [width |-> SidebarWidth(s),
                   height |-> available * s.eng.membersHeightPercentage,
                   left |-> SidebarLeft(s), top |-> SidebarBottom(s),
                   sidebarHeight |-> available * s.eng.sidebarHeightPercentage,
                   innerHeight |-> Max(0, available * s.eng.membersHeightPercentage
                                            - OUR_UI_HEIGHT_PX * 1000)]
  IN IF ~Truthy(s.eng.isMoved) THEN {}
     ELSE {p \in AuditLengths :
             actual[p] # Unset /\ Abs(actual[p] - expected[p]) = PIXEL_TOLERANCE}

\* style integrity checks (source lines 1077-1268); below: the lengths
\* whose difference at exactly the tolerance comes out below it
AuditStyleBad(s, below) ==
  LET availableHeightForPanels == AvailableHeight(s)
      expectedSidebarHeight == availableHeightForPanels * s.eng.sidebarHeightPercentage
      expectedMembersHeight == availableHeightForPanels * s.eng.membersHeightPercentage
      expectedMembersWrapTop == SidebarBottom(s)
      expectedMembersWrapWidth == SidebarWidth(s)
      expectedRemaining == expectedMembersHeight - OUR_UI_HEIGHT_PX * 1000
      w == s.dom.wrapStyle
      sb == s.dom.sidebarStyle
      inn == s.dom.innerStyle
  IN \/ availableHeightForPanels <= 0
     \/ IF Truthy(s.eng.isMoved)
        THEN \/ w.position # "fixed"
             \/ ~compareFloats(w.width, expectedMembersWrapWidth, "width" \in below)
             \/ ~compareFloats(w.height, expectedMembersHeight, "height" \in below)
             \/ ~compareFloats(w.left, SidebarLeft(s), "left" \in below)
             \/ ~compareFloats(w.top, expectedMembersWrapTop, "top" \in below)
             \/ w.transform # "translateX(0%)"
             \/ w.flexDirection # "column"
             \/ w.display # "flex"
             \/ w.zIndex # ""
             \/ ~compareFloats(sb.height, expectedSidebarHeight, "sidebarHeight" \in below)
             \/ sb.paddingBottom # "0px"
             \/ ~compareFloats(inn.height, Max(0, expectedRemaining), "innerHeight" \in below)
             \/ inn.width # "100%"
             \/ inn.overflowY # "auto"
        ELSE \/ w.position # ""
             \/ w.width # Unset
             \/ w.height # Unset
             \/ w.flexDirection # ""
             \/ w.display # ""
             \/ w.zIndex # ""
             \/ inn.height # Unset
             \/ inn.overflowY # ""
             \/ sb.height # Unset

\* An audit run that goes on to the style checks after a structural
\* mismatch and requests again at the end.
checkAndReapplyLayout_NoEarlyExit(s, below) ==
  IF ~HasWrap(s) \/ ~HasSidebar(s) \/ ~HasSection(s) \/ ~HasInner(s) THEN s
  ELSE LET Controls(t) == IF ~t.eng.button \/ ~t.eng.wrapperDiv \/ ~t.eng.resizeHandle
                          THEN addMoveButton(t) ELSE t
           Structure(t) == IF AuditStructureBad(t) THEN queueLayoutReapply(t) ELSE t
           Style(t) == IF AuditStructureBad(t) \/ AuditStyleBad(t, below)
                       THEN queueLayoutReapply(Structure(t)) ELSE t
       IN Style(Controls(EnsureInnerId(s)))

\* An audit run that does not require the inner-content node.
checkAndReapplyLayout_NoInnerTest(s, below) ==
  IF ~HasWrap(s) \/ ~HasSidebar(s) \/ ~HasSection(s) THEN s
  ELSE LET s1 == EnsureInnerId(s)
           s2 == IF ~s1.eng.button \/ ~s1.eng.wrapperDiv \/ ~s1.eng.resizeHandle
                 THEN addMoveButton(s1) ELSE s1
       IN IF AuditStructureBad(s2) THEN queueLayoutReapply(s2)
          ELSE IF AuditStyleBad(s2, below) THEN queueLayoutReapply(s2)
          ELSE s2

\* checkAndReapplyLayout(): one audit run
checkAndReapplyLayout(s, below) ==
  IF ~HasWrap(s) \/ ~HasSidebar(s) \/ ~HasSection(s) \/ ~HasInner(s) THEN s
  ELSE LET s1 == EnsureInnerId(s)
           s2 == IF ~s1.eng.button \/ ~s1.eng.wrapperDiv \/ ~s1.eng.resizeHandle
                 THEN addMoveButton(s1) ELSE s1
       IN IF AuditStructureBad(s2) THEN queueLayoutReapply(s2)
          ELSE IF AuditStyleBad(s2, below) THEN queueLayoutReapply(s2)
          ELSE s2

-----------------------------------------------------------------------------
(* Window resize and drag controller *)

\* A resize handler that does not require the container.
handleWindowResize_NoWrapTest(s) ==
  IF ~HasSidebar(s) \/ ~HasSection(s) THEN s
  ELSE IF AvailableHeight(s) <= 0 THEN s
  ELSE queueLayoutReapply(
         SetSidebarStyle(s, [height |-> AvailableHeight(s) * s.eng.sidebarHeightPercentage,
                             paddingBottom |-> "0px", navPaddingBottom |-> "0px"]))

\* handleWindowResize()
handleWindowResize(s) ==
  IF ~HasWrap(s) \/ ~HasSidebar(s) \/ ~HasSection(s) THEN s
  ELSE IF AvailableHeight(s) <= 0 THEN s
  ELSE queueLayoutReapply(
         SetSidebarStyle(s, [height |-> AvailableHeight(s) * s.eng.sidebarHeightPercentage,
                             paddingBottom |-> "0px", navPaddingBottom |-> "0px"]))

\* A pointer-down handler without the mode test.
onMouseDown_NoModeTest(s, clientY) ==
  [s EXCEPT !.eng.isDragging = TRUE,
            !.eng.initialMouseY = clientY,
            !.eng.initialSidebarHeightPercentage = s.eng.sidebarHeightPercentage,
            !.eng.initialMembersHeightPercentage = s.eng.membersHeightPercentage,
            !.env.mouseMoveListener = TRUE,
            !.env.mouseUpListener = TRUE]

\* resizeHandle.onmousedown
onMouseDown(s, clientY) ==
  IF ~Truthy(s.eng.isMoved) THEN s
  ELSE [s EXCEPT !.eng.isDragging = TRUE,
                 !.eng.initialMouseY = clientY,
                 !.eng.initialSidebarHeightPercentage = s.eng.sidebarHeightPercentage,
                 !.eng.initialMembersHeightPercentage = s.eng.membersHeightPercentage,
                 !.env.mouseMoveListener = TRUE,
                 !.env.mouseUpListener = TRUE]

\* A clamp whose upper limit is 1 instead of 1 - MIN_HEIGHT_PERCENTAGE.
Clamp_NoCeiling(num, avail) ==
  Max(MIN_HEIGHT_PERCENTAGE * 2 * avail, Min(1000 * 2 * avail, num))

\* A clamp without the lower limit.
Clamp_NoFloor(num, avail) ==
  Min((1000 - MIN_HEIGHT_PERCENTAGE) * 2 * avail, num)

\* Math.max(MIN, Math.min(1 - MIN, x)) on a fraction x = num / (2 * avail)
\* thousandths: every quantity of onMouseMove is kept as an integer number
\* of 1/(2*avail) thousandths, which makes "error / 2" exact.
Clamp(num, avail) ==
  Max(MIN_HEIGHT_PERCENTAGE * 2 * avail,
      Min((1000 - MIN_HEIGHT_PERCENTAGE) * 2 * avail, num))

\* parseFloat(x.toFixed(3)) in thousandths, for x = num / (2 * avail)
\* thousandths.  toFixed rounds the stored double to the nearest thousandth
\* and takes the larger one at an exact tie.  A tie k.5 thousandths is
\* stored exactly only when it is a dyadic rational, that is when 2k+1 is a
\* multiple of 125; otherwise the double lies just above or just below the
\* tie, and which one is decided by its binary expansion: tieUp.
ToFixed3(num, avail, tieUp) ==
  LET q == num \div (2 * avail)
      r == num % (2 * avail)
  IN IF r < avail THEN q
     ELSE IF r > avail THEN q + 1
     ELSE IF (2 * q + 1) % 125 = 0 THEN q + 1
     ELSE IF tieUp THEN q + 1 ELSE q

\* the proportion pair onMouseMove computes (source lines 744-766)
DragPair(clientY, top, avail, tieUpS, tieUpM) ==
  LET newSidebarHeightPx == clientY - top
      rawS == 2000 * newSidebarHeightPx
      rawM == 2000 * avail - rawS
      cS == Clamp(rawS, avail)
      cM == Clamp(rawM, avail)
      sum == cS + cM
      error == sum - 2000 * avail
      over == Abs(error) > 2 * avail
      fS == IF over THEN cS - error \div 2 ELSE cS
      fM == IF over THEN cM - error \div 2 ELSE cM
  IN [sidebar |-> ToFixed3(fS, avail, tieUpS),
      members |-> ToFixed3(fM, avail, tieUpM),
      redistributed |-> over]

\* A pointer-move handler without the test of the drag state.
onMouseMove_NoIdleTest(s, clientY, tieUpS, tieUpM) ==
  IF ~HasSidebar(s) \/ ~HasSection(s) THEN s
  ELSE IF AvailableHeight(s) <= 0 THEN s
  ELSE LET p == DragPair(clientY, Geom(s).top, AvailableHeight(s), tieUpS, tieUpM)
           s1 == [s EXCEPT !.eng.sidebarHeightPercentage = p.sidebar,
                           !.eng.membersHeightPercentage = p.members]
           s2 == queueLayoutReapply(s1)
       IN [s2 EXCEPT !.env.savedState = "object"]

\* onMouseMove(e)
onMouseMove(s, clientY, tieUpS, tieUpM) ==
  IF ~s.eng.isDragging THEN s
  ELSE IF ~HasSidebar(s) \/ ~HasSection(s) THEN s
  ELSE IF AvailableHeight(s) <= 0 THEN s
  ELSE LET p == DragPair(clientY, Geom(s).top, AvailableHeight(s), tieUpS, tieUpM)
           s1 == [s EXCEPT !.eng.sidebarHeightPercentage = p.sidebar,
                           !.eng.membersHeightPercentage = p.members]
           s2 == queueLayoutReapply(s1)
       IN \* BdApi.saveData(this.pluginId, this.dataKey, {sidebar, members})
          [s2 EXCEPT !.env.savedState = "object"]

\* onMouseUp()
onMouseUp(s) ==
  [s EXCEPT !.eng.isDragging = FALSE,
            !.env.mouseMoveListener = FALSE,
            !.env.mouseUpListener = FALSE]

\* A toggle that also resets the proportion pair to its default.
onButtonClick_ResetPair(s) ==
  LET m == Negate(s.eng.isMoved)
  IN queueLayoutReapply(
       [s EXCEPT !.eng.isMoved = m,
                 !.eng.sidebarHeightPercentage = 500,
                 !.eng.membersHeightPercentage = 500,
                 !.env.savedState = m,
                 !.env.savedHeights = <<500, 500>>])

\* this.button.onclick
onButtonClick(s) ==
  LET m == Negate(s.eng.isMoved)
  IN queueLayoutReapply(
       [s EXCEPT !.eng.isMoved = m,
                 !.env.savedState = m,
                 !.env.savedHeights = <<s.eng.sidebarHeightPercentage,
                                        s.eng.membersHeightPercentage>>])

\* this.wrapperDiv.onmouseover (source lines 662-666): the closure reads
\* the references when it runs and stops at the first one that is null
wrapperOnMouseOver(s) ==
  LET Colour(t) == SetWrapperBg(t, "transparent")
      Height(t) == IF t.eng.subContainerDiv THEN SetSubMaxHeight(t, "3em") ELSE t
  IN IF s.eng.wrapperDiv THEN Height(Colour(s)) ELSE s

\* this.wrapperDiv.onmouseout (source lines 667-671)
wrapperOnMouseOut(s) ==
  LET Colour(t) == SetWrapperBg(t, IF Truthy(t.eng.isMoved) THEN "moved" ELSE "orig")
      Height(t) == IF t.eng.subContainerDiv THEN SetSubMaxHeight(t, "0") ELSE t
  IN IF s.eng.wrapperDiv THEN Height(Colour(s)) ELSE s

\* buttonElement.onmouseover, installed by updateButtonVisualState (source
\* lines 699-701 and 708-710); a button that was never styled has none
buttonOnMouseOver(s) ==
  CASE s.dom.buttonHover = "moved" -> SetButtonBg(s, "movedHover")
    [] s.dom.buttonHover = "orig" -> SetButtonBg(s, "origHover")
    [] OTHER -> s

\* buttonElement.onmouseout (source lines 702-704 and 711-713)
buttonOnMouseOut(s) ==
  CASE s.dom.buttonHover = "moved" -> SetButtonBg(s, "moved")
    [] s.dom.buttonHover = "orig" -> SetButtonBg(s, "orig")
    [] OTHER -> s

\* this.resizeHandle.onmouseover / onmouseout (source lines 578-583)
handleOnMouseOver(s) ==
  IF s.eng.handleIndicator THEN SetIndicatorOpacity(s, "0.5") ELSE s

handleOnMouseOut(s) ==
  IF s.eng.handleIndicator THEN SetIndicatorOpacity(s, "0.25") ELSE s

-----------------------------------------------------------------------------
(* Lifecycle *)

\* start()
start(s) ==
  LET savedState == s.env.savedState
      s1 == IF savedState # "null" THEN [s EXCEPT !.eng.isMoved = savedState] ELSE s
      savedHeights == s1.env.savedHeights
      s2 == IF savedHeights # <<>>
            THEN [s1 EXCEPT !.eng.sidebarHeightPercentage = savedHeights[1],
                            !.eng.membersHeightPercentage = savedHeights[2]]
            ELSE s1
      s3 == setupObserver(s2)
      s4 == applyCurrentLayoutState([s3 EXCEPT !.gh.owed = FALSE])
      i  == FreshId(s4.env.intervals)
  IN [s4 EXCEPT !.eng.failsafeIntervalId = i, !.env.intervals = @ \cup {i}]

\* stop(), first part: observer, frame, timers (source lines 147-178)
StopTimers(s) ==
  LET s1 == IF s.eng.observer # 0
            THEN [s EXCEPT !.env.observers = @ \ {s.eng.observer},
                           !.env.batch = {},
                           !.env.transient = {},
                           !.eng.observer = 0]
            ELSE s
      s2 == IF s1.eng.animationFrameId # 0
            THEN [s1 EXCEPT !.env.frames = @ \ {s1.eng.animationFrameId},
                            !.eng.animationFrameId = 0]
            ELSE s1
      s3 == IF s2.eng.reapplyTimeout # 0
            THEN [s2 EXCEPT !.env.cooldowns = @ \ {s2.eng.reapplyTimeout},
                            !.eng.reapplyTimeout = 0]
            ELSE s2
      s4 == IF s3.eng.failsafeIntervalId # 0
            THEN [s3 EXCEPT !.env.intervals = @ \ {s3.eng.failsafeIntervalId},
                            !.eng.failsafeIntervalId = 0]
            ELSE s3
  IN clearAbsenceTimer(s4)

\* A teardown that drops its references to a control node only when the
\* node is no longer found in the container, that is on the following call.
StopSurface_LateRefs(s) ==
  LET Wrapper(t) == IF WrapperInDoc(t)
                    THEN RemoveWrapper(t)
                    ELSE [t EXCEPT !.eng.button = FALSE, !.eng.wrapperDiv = FALSE]
      Handle(t) == IF HandleInDoc(t)
                   THEN RemoveHandle(t)
                   ELSE [t EXCEPT !.eng.resizeHandle = FALSE, !.eng.handleIndicator = FALSE]
      Listeners(t) == [t EXCEPT !.env.resizeListener = FALSE,
                                !.eng.bdResizeListenerAdded = FALSE,
                                !.env.mouseMoveListener = FALSE,
                                !.env.mouseUpListener = FALSE]
  IN applyOriginalLayoutStyles(Listeners(Handle(Wrapper(s))))

\* stop(), second part: control surface, listeners, styles (lines 180-206).
\* A node whose last reference is dropped no longer exists; its fields in
\* dom are put back to those of a node that was never created.
StopSurface(s) ==
  LET s1 == IF WrapperInDoc(s)
            THEN [RemoveWrapper(s) EXCEPT !.eng.button = FALSE,
                                          !.eng.wrapperDiv = FALSE,
                                          !.dom.wrapperDisplay = "flex",
                                          !.dom.wrapperBg = "orig",
                                          !.dom.hasSub = TRUE,
                                          !.dom.subMaxHeight = "0",
                                          !.dom.hasButton = TRUE,
                                          !.dom.visual = "orig",
                                          !.dom.buttonBg = "orig",
                                          !.dom.buttonHover = "none"]
            ELSE s
      s2 == IF HandleInDoc(s1)
            THEN [RemoveHandle(s1) EXCEPT !.eng.resizeHandle = FALSE,
                                          !.eng.handleIndicator = FALSE,
                                          !.dom.handleDisplay = "",
                                          !.dom.hasIndicator = TRUE,
                                          !.dom.indicatorOpacity = "0.25"]
            ELSE s1
      s3 == [s2 EXCEPT !.env.resizeListener = FALSE,
                       !.eng.bdResizeListenerAdded = FALSE,
                       !.env.mouseMoveListener = FALSE,
                       !.env.mouseUpListener = FALSE]
  IN applyOriginalLayoutStyles(s3)

\* stop()
stop(s) == [StopSurface(StopTimers(s)) EXCEPT !.gh.owed = FALSE,
                                               !.gh.winExecs = 0,
                                               !.gh.armed = FALSE]

-----------------------------------------------------------------------------
(* Initial state: the object as the constructor leaves it, the host tree   *)
(* complete and unstyled, nothing stored by BdApi.                         *)
(*                                                                         *)
(* History variables (gh):                                                 *)
(*   stops       : 0 if the last step was not stop(), 1 after a stop(),    *)
(*                 2 after a stop() that directly followed a stop();       *)
(*   released    : the last step was an absence-timer callback that ran    *)
(*                 _resetSidebarListStyles;                                *)
(*   owed        : queueLayoutReapply was called since the last time       *)
(*                 applyCurrentLayoutState began (cleared by stop());      *)
(*   winExecs    : executions of applyCurrentLayoutState by the frame      *)
(*                 callback since the current cooldown window opened;      *)
(*   armed       : while the container is absent: the absence handler was  *)
(*                 invoked for this absence; once it is back: it had been  *)
(*                 invoked and did not release (cleared by stop());        *)
(*   releases    : releases by the absence handler during this absence;    *)
(*   armReleases : the same since the timer was last (re)started.          *)

Init ==
  /\ eng = [observer |-> 0, button |-> FALSE, wrapperDiv |-> FALSE,
            resizeHandle |-> FALSE, handleIndicator |-> FALSE,
            subContainerDiv |-> FALSE, isMoved |-> "false",
            animationFrameId |-> 0, failsafeIntervalId |-> 0,
            sidebarHeightPercentage |-> 500, membersHeightPercentage |-> 500,
            isDragging |-> FALSE, initialMouseY |-> 0,
            initialSidebarHeightPercentage |-> 0,
            initialMembersHeightPercentage |-> 0,
            bdResizeListenerAdded |-> FALSE,
            reapplyTimeout |-> 0, isThrottling |-> FALSE,
            pendingThrottleCall |-> FALSE, memberListAbsenceTimer |-> 0]
  /\ dom = [wrapPresent |-> TRUE, innerPresent |-> TRUE, innerId |-> FALSE,
            sidebarPresent |-> TRUE, sectionPresent |-> TRUE, geom |-> 1,
            wrapStyle |-> NoWrapStyle, sidebarStyle |-> NoSidebarStyle,
            innerStyle |-> NoInnerStyle,
            kids |-> <<>>, wrapperInInner |-> FALSE,
            handleStale |-> FALSE, wrapperStale |-> FALSE,
            handleDisplay |-> "", wrapperDisplay |-> "flex", visual |-> "orig",
            hasIndicator |-> TRUE, indicatorOpacity |-> "0.25",
            hasSub |-> TRUE, subMaxHeight |-> "0", wrapperBg |-> "orig",
            hasButton |-> TRUE, buttonBg |-> "orig", buttonHover |-> "none"]
  /\ env = [observers |-> {}, batch |-> {}, transient |-> {},
            frames |-> {}, cooldowns |-> {},
            intervals |-> {}, absTimers |-> {},
            resizeListener |-> FALSE, mouseMoveListener |-> FALSE,
            mouseUpListener |-> FALSE,
            savedState |-> "null", savedHeights |-> <<>>]
  /\ gh = [stops |-> 0, released |-> FALSE, owed |-> FALSE, armed |-> FALSE,
           winExecs |-> 0,
           armReleases |-> 0, releases |-> 0]

-----------------------------------------------------------------------------
(* Actions *)

\* the state a handler starts from; the one-step history variables
\* (released, stops) are cleared and set again by the step they describe
Cur == [eng |-> eng, dom |-> dom, env |-> env,
        gh |-> [gh EXCEPT !.released = FALSE, !.stops = 0]]

Becomes(s) == /\ eng' = s.eng
              /\ dom' = s.dom
              /\ env' = s.env
              /\ gh' = s.gh

\* a task starts only after the records of the previous one were delivered
NoPendingBatch == env.batch = {}

\* An engine task followed by its microtask checkpoint: the records the
\* task queued are delivered to the connected observer before anything
\* else runs.  (The observer callback itself writes nothing to the tree.)
Task(s) ==
  IF s.env.batch # {} /\ s.env.observers # {}
  THEN observerCallback([s EXCEPT !.env.batch = {}, !.env.transient = {}], s.env.batch)
  ELSE s

Start == /\ NoPendingBatch
         /\ Cardinality(env.intervals) < MaxIntervals
         /\ Becomes(Task(start(Cur)))

Stop == /\ NoPendingBatch
        /\ Becomes([Task(stop(Cur)) EXCEPT !.gh.stops = IF gh.stops = 0 THEN 1 ELSE 2])

\* the callback given to requestAnimationFrame in queueLayoutReapply
FrameCallback ==
  /\ NoPendingBatch
  /\ \E f \in env.frames :
       LET s1 == [Cur EXCEPT !.env.frames = @ \ {f},
                             !.gh.owed = FALSE,
                             !.gh.winExecs = Inc(@)]
       IN Becomes(Task([applyCurrentLayoutState(s1) EXCEPT !.eng.animationFrameId = 0]))

\* the callback given to setTimeout in queueLayoutReapply
CooldownTimer ==
  /\ NoPendingBatch
  /\ \E t \in env.cooldowns :
       LET s1 == [Cur EXCEPT !.env.cooldowns = @ \ {t},
                             !.eng.isThrottling = FALSE,
                             !.eng.reapplyTimeout = 0,
                             !.gh.winExecs = 0]
       IN IF s1.eng.pendingThrottleCall
          THEN Becomes(Task(queueLayoutReapply([s1 EXCEPT !.eng.pendingThrottleCall = FALSE])))
          ELSE Becomes(Task(s1))

\* one tick of a failsafe interval
FailsafeTick ==
  /\ NoPendingBatch
  /\ \E i \in env.intervals, below \in SUBSET AtTolerance(Cur) :
       Becomes(Task(checkAndReapplyLayout(Cur, below)))

\* the absence debounce timer fires
AbsenceTimer ==
  /\ NoPendingBatch
  /\ \E t \in env.absTimers :
       Becomes(Task(absenceTimerCallback([Cur EXCEPT !.env.absTimers = @ \ {t}])))

\* delivery of the queued records to the connected observer
ObserverCallback ==
  /\ env.batch # {}
  /\ env.observers # {}
  /\ Becomes(observerCallback([Cur EXCEPT !.env.batch = {}, !.env.transient = {}],
                               env.batch))

\* a click on the toggle button, which must be in the document and shown
ToggleClick ==
  /\ NoPendingBatch
  /\ WrapperInDoc(Cur) /\ WrapperHasButton(Cur) /\ dom.wrapperDisplay = "flex"
  /\ Becomes(Task(onButtonClick(Cur)))

\* The pointer enters or leaves a control node that is in the document and
\* shown.  The mutation records of a handler are delivered when it
\* returns; an event on the button bubbles to the wrapper.
WrapperMouseOver ==
  /\ NoPendingBatch
  /\ WrapperInDoc(Cur) /\ dom.wrapperDisplay = "flex"
  /\ Becomes(Task(wrapperOnMouseOver(Cur)))

WrapperMouseOut ==
  /\ NoPendingBatch
  /\ WrapperInDoc(Cur) /\ dom.wrapperDisplay = "flex"
  /\ Becomes(Task(wrapperOnMouseOut(Cur)))

ButtonMouseOver ==
  /\ NoPendingBatch
  /\ WrapperInDoc(Cur) /\ WrapperHasButton(Cur) /\ dom.wrapperDisplay = "flex"
  /\ Becomes(Task(wrapperOnMouseOver(Task(buttonOnMouseOver(Cur)))))

ButtonMouseOut ==
  /\ NoPendingBatch
  /\ WrapperInDoc(Cur) /\ WrapperHasButton(Cur) /\ dom.wrapperDisplay = "flex"
  /\ Becomes(Task(wrapperOnMouseOut(Task(buttonOnMouseOut(Cur)))))

HandleMouseOver ==
  /\ NoPendingBatch
  /\ HandleInDoc(Cur) /\ dom.handleDisplay # "none"
  /\ Becomes(Task(handleOnMouseOver(Cur)))

HandleMouseOut ==
  /\ NoPendingBatch
  /\ HandleInDoc(Cur) /\ dom.handleDisplay # "none"
  /\ Becomes(Task(handleOnMouseOut(Cur)))

Pointer == \/ WrapperMouseOver
           \/ WrapperMouseOut
           \/ ButtonMouseOver
           \/ ButtonMouseOut
           \/ HandleMouseOver
           \/ HandleMouseOut

\* pointer-down on the drag handle, which must be in the document
HandleMouseDown ==
  /\ NoPendingBatch
  /\ eng.resizeHandle /\ HandleInDoc(Cur) /\ dom.handleDisplay # "none"
  /\ \E y \in PointerYs : Becomes(Task(onMouseDown(Cur, y)))

\* a mousemove event with clientY in Ys reaches the registered listener
MouseMoveAt(Ys) ==
  /\ NoPendingBatch
  /\ env.mouseMoveListener
  /\ \E y \in Ys, tieUpS, tieUpM \in BOOLEAN :
       Becomes(Task(onMouseMove(Cur, y, tieUpS, tieUpM)))

MouseMove == MouseMoveAt(PointerYs)

MouseUp ==
  /\ NoPendingBatch
  /\ env.mouseUpListener
  /\ Becomes(Task(onMouseUp(Cur)))

\* a resize event of the window: the geometry of the column becomes g,
\* which may be the one it had (a resize that leaves the column as it is),
\* and the event is dispatched to the registered listener
WindowResizeTo(Gs) ==
  /\ NoPendingBatch
  /\ \E g \in Gs :
       LET s1 == [Cur EXCEPT !.dom.geom = g]
       IN Becomes(Task(IF env.resizeListener THEN handleWindowResize(s1) ELSE s1))

WindowResize == WindowResizeTo(MainGeoms)

-----------------------------------------------------------------------------
(* The host application.  It may change the tree at any time, several      *)
(* times within one task.  A removed node is gone: what comes back is a    *)
(* fresh node without inline styles, and plugin nodes that sat inside a    *)
(* removed node stay attached to it, outside the document.                 *)

HostRemoveWrap ==
  /\ dom.wrapPresent
  /\ Becomes(Record(
       [Cur EXCEPT !.dom.wrapPresent = FALSE,
                   !.dom.innerPresent = FALSE,
                   !.dom.innerId = FALSE,
                   !.dom.wrapStyle = NoWrapStyle,
                   !.dom.innerStyle = NoInnerStyle,
                   !.dom.kids = <<>>,
                   !.dom.wrapperInInner = FALSE,
                   !.dom.handleStale = @ \/ HandleInWrap(Cur),
                   !.dom.wrapperStale = @ \/ WrapperInWrap(Cur) \/ dom.wrapperInInner,
                   !.gh.armed = FALSE,
                   !.gh.armReleases = 0,
                   !.gh.releases = 0],
       {"childList"}, TRUE))

\* the container comes back, itself added to a node of the document
\* (direct) or inside an added subtree
HostAddWrap ==
  /\ ~dom.wrapPresent
  /\ \E withInner, direct \in BOOLEAN :
       Becomes(Record(
         [Cur EXCEPT !.dom.wrapPresent = TRUE,
                     !.dom.innerPresent = withInner,
                     !.gh.armed = gh.armed /\ gh.releases = 0,
                     !.gh.armReleases = 0,
                     !.gh.releases = 0],
         IF direct THEN {"childList", "wrapAdded"} ELSE {"childList"}, TRUE))

HostRemoveInner ==
  /\ dom.wrapPresent /\ dom.innerPresent
  /\ Becomes(Record(
       [Cur EXCEPT !.dom.innerPresent = FALSE,
                   !.dom.innerId = FALSE,
                   !.dom.innerStyle = NoInnerStyle,
                   !.dom.wrapperInInner = FALSE,
                   !.dom.wrapperStale = @ \/ dom.wrapperInInner],
       {"childList"}, TRUE))

HostAddInner ==
  /\ dom.wrapPresent /\ ~dom.innerPresent
  /\ Becomes(Record([Cur EXCEPT !.dom.innerPresent = TRUE], {"childList"}, TRUE))

HostRemoveSidebar ==
  /\ dom.sidebarPresent
  /\ Becomes(Record([Cur EXCEPT !.dom.sidebarPresent = FALSE,
                                !.dom.sidebarStyle = NoSidebarStyle],
                    {"childList"}, TRUE))

HostAddSidebar ==
  /\ ~dom.sidebarPresent
  /\ Becomes(Record([Cur EXCEPT !.dom.sidebarPresent = TRUE], {"childList"}, TRUE))

\* any other change of the page: nodes added or removed elsewhere, or an
\* inline style changed on a node the plugin does not track
HostOtherMutation ==
  /\ env.observers # {}
  /\ \E k \in {"childList", "styleOther"} :
       /\ k \notin env.batch
       /\ Becomes(Record(Cur, {k}, TRUE))

\* the host removes a child of a control node that is in the document
HostRemoveIndicator ==
  /\ HandleInDoc(Cur) /\ HandleHasIndicator(Cur)
  /\ Becomes(Record([Cur EXCEPT !.dom.hasIndicator = FALSE], {"childList"}, TRUE))

HostRemoveSub ==
  /\ WrapperInDoc(Cur) /\ WrapperHasSub(Cur)
  /\ Becomes(Record([Cur EXCEPT !.dom.hasSub = FALSE], {"childList"}, TRUE))

HostRemoveButton ==
  /\ WrapperInDoc(Cur) /\ WrapperHasButton(Cur)
  /\ Becomes(Record([Cur EXCEPT !.dom.hasButton = FALSE], {"childList"}, TRUE))

HostChildren == \/ HostRemoveIndicator
                \/ HostRemoveSub
                \/ HostRemoveButton

Host == \/ HostRemoveWrap
        \/ HostAddWrap
        \/ HostRemoveInner
        \/ HostAddInner
        \/ HostRemoveSidebar
        \/ HostAddSidebar
        \/ HostOtherMutation

Next == \/ Start
        \/ Stop
        \/ FrameCallback
        \/ CooldownTimer
        \/ FailsafeTick
        \/ AbsenceTimer
        \/ ObserverCallback
        \/ ToggleClick
        \/ HandleMouseDown
        \/ MouseMove
        \/ MouseUp
        \/ WindowResize
        \/ Host

Spec == Init /\ [][Next]_vars

-----------------------------------------------------------------------------
(* The drag specification: the plugin is started once and switched to the  *)
(* moved placement once; after that the user presses the handle once and   *)
(* drags it over the whole range of pointer positions while the window     *)
(* takes every geometry that has room.  The failsafe interval registered   *)
(* by start() ticks throughout.                                            *)

DragStart == eng.observer = 0 /\ Start

DragToggle == ~Truthy(eng.isMoved) /\ ToggleClick

DragMouseDown == eng.initialMouseY = 0 /\ HandleMouseDown

DragMouseMove == MouseMoveAt(DragYs)

DragWindowResize == WindowResizeTo(DragGeoms)

NextDrag == \/ DragStart
            \/ DragToggle
            \/ FrameCallback
            \/ CooldownTimer
            \/ FailsafeTick
            \/ DragMouseDown
            \/ DragMouseMove
            \/ MouseUp
            \/ DragWindowResize

SpecDrag == Init /\ [][NextDrag]_vars

-----------------------------------------------------------------------------
(* Exceptions inside a pass.  Nothing the pass does to the modelled tree   *)
(* throws; an unexpected exception comes from outside (a host node that    *)
(* misbehaves).  It is an input of the pass: raised by the first query,    *)
(* before anything was written, or by the last statement, after            *)
(* everything was.                                                         *)

Faults == {"none", "early", "late"}

\* A catch clause that logs and does not throw again.
applyCurrentLayoutStateTry_Swallow(s, fault) ==
  IF fault = "early" THEN [thrown |-> FALSE, s |-> s]
  ELSE [thrown |-> FALSE, s |-> applyCurrentLayoutState(s)]

\* applyCurrentLayoutState() with its try / catch (source lines 361 and
\* 513-518): the catch clause logs the exception and throws it again.
\* thrown says whether the call ends by raising to its caller.
applyCurrentLayoutStateTry(s, fault) ==
  IF fault = "early" THEN [thrown |-> TRUE, s |-> s]
  ELSE IF fault = "late" THEN [thrown |-> TRUE, s |-> applyCurrentLayoutState(s)]
  ELSE [thrown |-> FALSE, s |-> applyCurrentLayoutState(s)]

\* the callback given to requestAnimationFrame: the statement after the
\* pass is reached only if the pass returns
frameCallback(s, fault) ==
  LET Rest(r) == IF r.thrown THEN r.s ELSE [r.s EXCEPT !.eng.animationFrameId = 0]
  IN Rest(applyCurrentLayoutStateTry(s, fault))

\* start(): the failsafe interval is created only if the first pass returns
startTry(s, fault) ==
  LET Load(t) == IF t.env.savedState # "null"
                 THEN [t EXCEPT !.eng.isMoved = t.env.savedState] ELSE t
      Heights(t) == IF t.env.savedHeights # <<>>
                    THEN [t EXCEPT !.eng.sidebarHeightPercentage = t.env.savedHeights[1],
                                   !.eng.membersHeightPercentage = t.env.savedHeights[2]]
                    ELSE t
      Pass(t) == applyCurrentLayoutStateTry([t EXCEPT !.gh.owed = FALSE], fault)
      Rest(r) == IF r.thrown THEN r.s
                 ELSE [r.s EXCEPT !.eng.failsafeIntervalId = FreshId(r.s.env.intervals),
                                  !.env.intervals = @ \cup {FreshId(r.s.env.intervals)}]
  IN Rest(Pass(setupObserver(Heights(Load(s)))))

FaultStartWith(Fs) ==
  /\ NoPendingBatch
  /\ eng.observer = 0
  /\ Cardinality(env.intervals) < MaxIntervals
  /\ \E fault \in Fs : Becomes(Task(startTry(Cur, fault)))

FaultFrameCallbackWith(Fs) ==
  /\ NoPendingBatch
  /\ \E f \in env.frames, fault \in Fs :
       Becomes(Task(frameCallback([Cur EXCEPT !.env.frames = @ \ {f},
                                              !.gh.owed = FALSE,
                                              !.gh.winExecs = Inc(@)], fault)))

FaultStart == FaultStartWith(Faults)
FaultFrameCallback == FaultFrameCallbackWith(Faults)

NextFault == \/ FaultStart
             \/ FaultFrameCallback
             \/ CooldownTimer
             \/ FailsafeTick
             \/ ToggleClick
             \/ Stop

SpecFault == Init /\ [][NextFault]_vars

-----------------------------------------------------------------------------
(* Audit inputs.  The host (or another script) changes one inline          *)
(* property of one tracked node of a reconciled tree: a keyword property   *)
(* is removed, or set to the keyword the MOVED procedure uses; a length is *)
(* set, or moved by less or by more than the tolerance of the audit.       *)

\* the inline properties the audit or the MOVED procedure knows, by node
WrapKeywords == [position |-> "fixed", transform |-> "translateX(0%)",
                 minWidth |-> "unset", display |-> "flex",
                 flexDirection |-> "column", zIndex |-> "1"]
WrapLengths == {"width", "height", "left", "top"}
InnerKeywords == [width |-> "100%", overflowY |-> "auto"]
SidebarKeywords == [paddingBottom |-> "0px"]

\* shifts of a length, in thousandths of a pixel: inside and outside the
\* tolerance
Shifts == {PIXEL_TOLERANCE \div 2, PIXEL_TOLERANCE, 10 * PIXEL_TOLERANCE}

\* the values an edit can give a keyword property and a length
EditedKeyword(cur, kw) == IF cur = "" THEN kw ELSE ""
EditedLengths(cur) == IF cur = Unset THEN {10 * PIXEL_TOLERANCE}
                      ELSE {cur + d : d \in Shifts}

\* the tree is as a completed pass leaves it
Reconciled(s) ==
  /\ HasWrap(s) /\ HasSidebar(s) /\ HasSection(s) /\ HasInner(s)
  /\ Truthy(s.eng.isMoved) => AvailableHeight(s) > 0
  /\ applyCurrentLayoutState(s).dom = s.dom

HostEditWrapStyle ==
  /\ env.observers # {} /\ NoPendingBatch /\ Reconciled(Cur)
  /\ \/ \E p \in DOMAIN WrapKeywords :
          Becomes(SetWrapStyle(Cur, [dom.wrapStyle EXCEPT
                    ![p] = EditedKeyword(dom.wrapStyle[p], WrapKeywords[p])]))
     \/ \E p \in WrapLengths : \E v \in EditedLengths(dom.wrapStyle[p]) :
          Becomes(SetWrapStyle(Cur, [dom.wrapStyle EXCEPT ![p] = v]))

HostEditInnerStyle ==
  /\ env.observers # {} /\ NoPendingBatch /\ Reconciled(Cur)
  /\ \/ \E p \in DOMAIN InnerKeywords :
          Becomes(SetInnerStyle(Cur, [dom.innerStyle EXCEPT
                    ![p] = EditedKeyword(dom.innerStyle[p], InnerKeywords[p])]))
     \/ \E v \in EditedLengths(dom.innerStyle.height) :
          Becomes(SetInnerStyle(Cur, [dom.innerStyle EXCEPT !.height = v]))

HostEditSidebarStyle ==
  /\ env.observers # {} /\ NoPendingBatch /\ Reconciled(Cur)
  /\ \/ \E p \in DOMAIN SidebarKeywords :
          Becomes(SetSidebarStyle(Cur, [dom.sidebarStyle EXCEPT
                    ![p] = EditedKeyword(dom.sidebarStyle[p], SidebarKeywords[p])]))
     \/ \E v \in EditedLengths(dom.sidebarStyle.height) :
          Becomes(SetSidebarStyle(Cur, [dom.sidebarStyle EXCEPT !.height = v]))

AuditStart == eng.observer = 0 /\ Start

NextAudit == \/ AuditStart
             \/ Stop
             \/ ToggleClick
             \/ FrameCallback
             \/ CooldownTimer
             \/ ObserverCallback
             \/ FailsafeTick
             \/ HostEditWrapStyle
             \/ HostEditInnerStyle
             \/ HostEditSidebarStyle

SpecAudit == Init /\ [][NextAudit]_vars

-----------------------------------------------------------------------------
(* The control-surface specification: the plugin is started at most once   *)
(* at a time on a complete tree; the user toggles the layout and moves the *)
(* pointer over the toggle wrapper, the button and the drag handle, and    *)
(* the host removes children of the control nodes.                         *)

SurfaceStart == eng.observer = 0 /\ Start

NextSurface == \/ SurfaceStart
               \/ Stop
               \/ ToggleClick
               \/ FrameCallback
               \/ CooldownTimer
               \/ ObserverCallback
               \/ FailsafeTick
               \/ Pointer
               \/ HostChildren

SpecSurface == Init /\ [][NextSurface]_vars

-----------------------------------------------------------------------------
(* Settling.  The browser runs every frame callback, timer and mutation     *)
(* delivery that is due, so the engine's own callbacks are fair; the        *)
(* host, the user and the plugin manager may stop acting at any time.       *)

\* a step of the engine's own callbacks, the failsafe tick excluded
Settling == \/ FrameCallback
            \/ CooldownTimer
            \/ ObserverCallback
            \/ AbsenceTimer

\* the scheduler of queueLayoutReapply at rest
Idle == /\ ~eng.isThrottling
        /\ ~eng.pendingThrottleCall
        /\ eng.animationFrameId = 0

SettleStart == eng.observer = 0 /\ Start

NextSettle == \/ SettleStart
              \/ Stop
              \/ ToggleClick
              \/ FrameCallback
              \/ CooldownTimer
              \/ ObserverCallback
              \/ AbsenceTimer
              \/ FailsafeTick
              \/ HostRemoveWrap
              \/ HostAddWrap
              \/ HostOtherMutation

\* FrameCallback can take a step exactly when a frame is scheduled and no
\* mutation delivery is due (the step removes the frame, so it changes the
\* state).  Every queueLayoutReapply cancels the scheduled frame (source
\* lines 903-906), so a frame that is due again and again need never run:
\* the frame callback is only weakly fair, and its fairness is written with
\* its enabling condition.  A cooldown timer is cancelled by stop() alone;
\* a delivery that is due runs first and then the timer runs, however often
\* the host mutates the tree: the cooldown timer is strongly fair.
FrameDue == NoPendingBatch /\ env.frames # {}

SpecSettle == /\ Init /\ [][NextSettle]_vars
              /\ ([]<>~FrameDue \/ []<><<FrameCallback>>_vars)
              /\ SF_vars(CooldownTimer)
              /\ WF_vars(ObserverCallback)
              /\ WF_vars(AbsenceTimer)

-----------------------------------------------------------------------------
(* Properties *)

\* the engine is running: started and not stopped since
Running == eng.observer # 0

\* C1: within one cooldown window applyCurrentLayoutState runs exactly once
\* from the frame callback of the call that opened the window (the
\* immediate execution) and never more than once: as long as the cooldown
\* timer of the window is pending and no frame callback is, that execution
\* has taken place.
C1_OneImmediateExecution ==
  /\ gh.winExecs <= 1
  /\ (env.cooldowns # {} /\ env.frames = {}) => gh.winExecs = 1

\* C2: while the engine is running every reapply request is followed by an
\* execution of applyCurrentLayoutState: a request that has not been served
\* yet has a frame callback or a cooldown timer pending that will serve it.
C2_RequestStaysScheduled ==
  (Running /\ gh.owed) => (env.frames # {} \/ env.cooldowns # {})

\* C3: at most one animation-frame callback and at most one cooldown timer
\* of the scheduler are pending, in every reachable state.
C3_OneFrameOneCooldown ==
  /\ Cardinality(env.frames) <= 1
  /\ Cardinality(env.cooldowns) <= 1

\* a frame callback and a cooldown timer pending together, both the ones
\* the engine holds the handles of
C3_BothPending ==
  /\ eng.animationFrameId \in env.frames
  /\ eng.reapplyTimeout \in env.cooldowns

\* C4: the proportion pair stored by onMouseMove has both values in
\* [0.05, 0.95] and a sum within 0.001 of 1.0, after rounding to three
\* decimals (values in thousandths).
C4_PairInRange ==
  /\ eng.sidebarHeightPercentage \in MIN_HEIGHT_PERCENTAGE .. 1000 - MIN_HEIGHT_PERCENTAGE
  /\ eng.membersHeightPercentage \in MIN_HEIGHT_PERCENTAGE .. 1000 - MIN_HEIGHT_PERCENTAGE
  /\ Abs(eng.sidebarHeightPercentage + eng.membersHeightPercentage - 1000) <= 1

\* a drag at 29/400 of the available height: both values are at a rounding
\* tie and both are rounded down, the sum is 0.999
C4_TieRoundedDown ==
  /\ eng.isDragging
  /\ eng.sidebarHeightPercentage = 72
  /\ eng.membersHeightPercentage = 927

\* C5: an absence of the container that ends before the absence timer fires
\* never releases the upper-region override: the release runs only while
\* the container is absent, and once the reappearance has been delivered to
\* the observer no absence timer is left to fire.
C5_BriefAbsenceKeepsOverride ==
  /\ gh.released => ~dom.wrapPresent
  /\ (dom.wrapPresent /\ env.batch = {}) => env.absTimers = {}

\* moved placement, the container was absent, the timer was started and did
\* not fire, the container is back (not yet styled) and the reappearance
\* was delivered: the upper-region height override is still there
C5_BackBeforeTimer ==
  /\ Running /\ Truthy(eng.isMoved)
  /\ dom.wrapPresent /\ gh.armed /\ env.batch = {}
  /\ dom.wrapStyle = NoWrapStyle
  /\ dom.sidebarPresent /\ dom.sidebarStyle.height # Unset

\* C6 as stated: during one absence of the container the release procedure
\* runs at most once, whatever batches are delivered meanwhile.
C6_ReleasedOncePerAbsence == gh.releases <= 1

\* C6, amended: while the container stays absent a started absence timer
\* stays pending until it fires or is restarted; each timer releases at
\* most once, only while the container is absent, and leaves the upper
\* region without height and padding overrides.  (A batch delivered during
\* the absence restarts the timer, so the release may run again.)
C6_ReleaseOncePerTimer ==
  /\ gh.armReleases <= 1
  /\ gh.released => /\ ~dom.wrapPresent
                    /\ dom.sidebarPresent => dom.sidebarStyle = NoSidebarStyle
  /\ (Running /\ ~dom.wrapPresent /\ env.batch = {} /\ gh.armed /\ gh.armReleases = 0)
       => (env.absTimers = {eng.memberListAbsenceTimer})

\* the release has run twice during one absence
C6_ReleasedTwice == ~dom.wrapPresent /\ gh.releases = 2

\* C7: after stop() the observer is disconnected and no frame callback,
\* cooldown timer, audit interval or absence timer is pending.
C7_NothingPendingAfterStop ==
  gh.stops > 0 => /\ env.observers = {}
                  /\ env.frames = {}
                  /\ env.cooldowns = {}
                  /\ env.intervals = {}
                  /\ env.absTimers = {}

\* C8: after stop() neither control node is attached to the document, the
\* resize listener is not registered, and no resolvable container,
\* upper-region or inner-content node carries an inline override.
C8_CleanAfterStop ==
  gh.stops > 0 => /\ ~HandleInDoc(Cur) /\ ~WrapperInDoc(Cur)
                  /\ dom.kids = <<>> /\ ~dom.wrapperInInner
                  /\ ~env.resizeListener
                  /\ dom.wrapPresent => dom.wrapStyle = NoWrapStyle
                  /\ dom.sidebarPresent => dom.sidebarStyle = NoSidebarStyle
                  /\ HasInner(Cur) => dom.innerStyle = NoInnerStyle

\* stop() has just removed both control nodes from a resolvable container
\* (the references are dropped only when the nodes were found there) while
\* the saved mode is the moved one
C8_StoppedFromMoved ==
  /\ gh.stops = 1
  /\ dom.wrapPresent /\ dom.innerPresent /\ dom.sidebarPresent
  /\ ~eng.resizeHandle /\ ~eng.wrapperDiv
  /\ env.savedState = "true"

\* C9: stop() directly after stop() changes neither the engine state nor
\* the tree nor anything registered with the host.
C9_StopIdempotent ==
  [][gh'.stops = 2 => (eng' = eng /\ dom' = dom /\ env' = env)]_vars

\* stop() was called directly after stop()
C9_StoppedTwice == gh.stops = 2

\* C10: however often start() was called, a running engine has exactly one
\* connected observer and one audit interval, and after stop() no audit
\* interval is left.
C10_StartIdempotent ==
  /\ Running => /\ Cardinality(env.observers) = 1
                /\ Cardinality(env.intervals) = 1
  /\ gh.stops > 0 => env.intervals = {}

\* C11 (as stated): the value stored under the persisted mode key is always
\* the boolean written by the last toggle activation (or nothing, before the
\* first toggle), and while the plugin runs after a start() that found a
\* stored value the in-memory mode is a boolean too.
C11_ModeKeyHoldsBoolean ==
  /\ env.savedState \in {"null", "true", "false"}
  /\ eng.isMoved \in {"true", "false"}

\* C12 (as stated): the proportion pair in memory is always the pair stored
\* under the persisted proportion key (every pointer-move that updates the
\* pair saves it there), or the default pair while nothing is stored; hence
\* stop() then start() restores exactly the last dragged pair.
C12_DraggedPairSaved ==
  IF env.savedHeights = <<>>
  THEN eng.sidebarHeightPercentage = 500 /\ eng.membersHeightPercentage = 500
  ELSE env.savedHeights = <<eng.sidebarHeightPercentage, eng.membersHeightPercentage>>

\* C13 (as stated): a frame callback whose reconciliation pass completes in
\* MOVED mode (container, upper region and boundary marker resolvable, room
\* available) leaves the drag handle and the toggle wrapper as direct
\* children of the container, the handle before the wrapper, both with
\* display flex, whatever the placement was before the pass.
C13_MovedPassPlacesControls ==
  [][(/\ FrameCallback
      /\ Truthy(eng.isMoved)
      /\ dom.wrapPresent /\ dom.sidebarPresent /\ dom.sectionPresent
      /\ GeomTable[dom.geom].avail > 0)
     => (/\ \E i, j \in DOMAIN dom'.kids :
              i < j /\ dom'.kids[i] = "handle" /\ dom'.kids[j] = "wrapper"
         /\ ~dom'.wrapperInInner
         /\ dom'.handleDisplay = "flex"
         /\ dom'.wrapperDisplay = "flex")]_vars

\* C14 (as stated): a frame callback whose reconciliation pass runs in
\* ORIGINAL mode leaves the drag handle outside the document, and leaves
\* the toggle wrapper inside the inner-content node when that node is
\* resolvable and outside the document otherwise.
C14_OriginalPassPlacesControls ==
  [][(FrameCallback /\ ~Truthy(eng.isMoved))
     => (/\ ~(dom'.wrapPresent /\ "handle" \in Range(dom'.kids))
         /\ (dom'.wrapPresent /\ dom'.innerPresent)
              => (dom'.wrapperInInner /\ "wrapper" \notin Range(dom'.kids))
         /\ ~(dom'.wrapPresent /\ dom'.innerPresent)
              => ~(dom'.wrapPresent /\ "wrapper" \in Range(dom'.kids)))]_vars

\* C15: the MOVED styling procedure is idempotent.  In every reachable
\* MOVED state, running the reconciliation pass a second time on the
\* result of a first run (same proportions, same host geometry) leaves the
\* tree exactly as the first run left it: the inline styles of container,
\* upper region and inner-content, and the placement and display of the
\* control surface.
C15_MovedPassIdempotent ==
  Truthy(eng.isMoved)
    => applyCurrentLayoutState(applyCurrentLayoutState(Cur)).dom
         = applyCurrentLayoutState(Cur).dom

\* a MOVED state in which a completed pass changes the tree
C15_MovedPassActs ==
  /\ Truthy(eng.isMoved)
  /\ HasWrap(Cur) /\ HasSidebar(Cur) /\ HasSection(Cur) /\ HasInner(Cur)
  /\ AvailableHeight(Cur) > 0
  /\ dom.sidebarStyle.height = Unset
  /\ applyCurrentLayoutState(Cur).dom # dom
  /\ applyCurrentLayoutState(Cur).dom.wrapStyle.position = "fixed"

\* C16 (as stated): round trip.  From a state left by a completed MOVED
\* pass, a toggle to ORIGINAL with its pass followed by a toggle back to
\* MOVED with its pass (same proportions, same host geometry) restores the
\* inline geometry of container, upper region and inner-content and the
\* placement of the control surface.
C16_RoundTripRestores ==
  (/\ Truthy(eng.isMoved)
   /\ HasWrap(Cur) /\ HasSidebar(Cur) /\ HasSection(Cur)
   /\ AvailableHeight(Cur) > 0
   /\ dom.wrapStyle.position = "fixed"
   /\ applyCurrentLayoutState(Cur).dom = dom)
  => LET b == applyCurrentLayoutState(onButtonClick(Cur))
         c == applyCurrentLayoutState(onButtonClick(b))
     IN /\ c.dom.wrapStyle = dom.wrapStyle
        /\ c.dom.sidebarStyle = dom.sidebarStyle
        /\ c.dom.innerStyle = dom.innerStyle
        /\ c.dom.kids = dom.kids
        /\ c.dom.wrapperInInner = dom.wrapperInInner
        /\ c.dom.handleDisplay = dom.handleDisplay
        /\ c.dom.wrapperDisplay = dom.wrapperDisplay

\* C17 (as stated): a completed MOVED pass writes upper-region height =
\* availableHeight * upper, container height = availableHeight * lower and
\* inner-content height = max(0, container height - 16px); with 600px and
\* 0.5 / 0.5 that is 300px, 300px and 284px.
C17_Reserves16 ==
  (/\ Truthy(eng.isMoved)
   /\ HasWrap(Cur) /\ HasSidebar(Cur) /\ HasSection(Cur) /\ HasInner(Cur)
   /\ AvailableHeight(Cur) > 0)
  => LET p == applyCurrentLayoutState(Cur).dom
         lowerTotalHeight == AvailableHeight(Cur) * eng.membersHeightPercentage
     IN /\ p.sidebarStyle.height = AvailableHeight(Cur) * eng.sidebarHeightPercentage
        /\ p.wrapStyle.height = lowerTotalHeight
        /\ p.innerStyle.height = Max(0, lowerTotalHeight - 16000)
        /\ (/\ AvailableHeight(Cur) = 600
            /\ eng.sidebarHeightPercentage = 500
            /\ eng.membersHeightPercentage = 500)
             => (/\ p.sidebarStyle.height = 300000
                 /\ p.wrapStyle.height = 300000
                 /\ p.innerStyle.height = 284000)

\* C17, amended: the reservation is the height of the drag handle plus the
\* height of the toggle wrapper, 16px + 8px = 24px.  A completed MOVED pass
\* writes upper-region height = availableHeight * upper, container height =
\* availableHeight * lower and inner-content height = max(0, container
\* height - 24px); with 600px and 0.5 / 0.5 that is 300px, 300px and 276px.
C17_Reserves24 ==
  (/\ Truthy(eng.isMoved)
   /\ HasWrap(Cur) /\ HasSidebar(Cur) /\ HasSection(Cur) /\ HasInner(Cur)
   /\ AvailableHeight(Cur) > 0)
  => LET p == applyCurrentLayoutState(Cur).dom
         lowerTotalHeight == AvailableHeight(Cur) * eng.membersHeightPercentage
     IN /\ p.sidebarStyle.height = AvailableHeight(Cur) * eng.sidebarHeightPercentage
        /\ p.wrapStyle.height = lowerTotalHeight
        /\ p.innerStyle.height = Max(0, lowerTotalHeight - 24000)
        /\ (/\ AvailableHeight(Cur) = 600
            /\ eng.sidebarHeightPercentage = 500
            /\ eng.membersHeightPercentage = 500)
             => (/\ p.sidebarStyle.height = 300000
                 /\ p.wrapStyle.height = 300000
                 /\ p.innerStyle.height = 276000)

\* the scenario: 600px available, 0.5 / 0.5, styles written by a MOVED pass
C17_ScenarioStyled ==
  /\ Truthy(eng.isMoved)
  /\ AvailableHeight(Cur) = 600
  /\ eng.sidebarHeightPercentage = 500 /\ eng.membersHeightPercentage = 500
  /\ dom.wrapStyle.position = "fixed"
  /\ dom.sidebarStyle.height = 300000
  /\ dom.wrapStyle.height = 300000
  /\ dom.innerStyle.height = 276000
  /\ applyCurrentLayoutState(Cur).dom.innerStyle = dom.innerStyle

\* C18 (as stated): drift is self-healed.  Whenever an audit run with all
\* four nodes resolvable and room available finds a deviation (and so
\* requests a reapply), the reconciliation pass run on that state removes
\* it: an audit run on the result of the pass finds no deviation and
\* requests nothing, so the cycle does not repeat on every tick.
C18_DriftHealedByPass ==
  LET Controls(t) == IF ~t.eng.button \/ ~t.eng.wrapperDiv \/ ~t.eng.resizeHandle
                     THEN addMoveButton(t) ELSE t
      Deviates(t) == AuditStructureBad(Controls(EnsureInnerId(t)))
                       \/ AuditStyleBad(Controls(EnsureInnerId(t)), {})
  IN (/\ Running
      /\ HasWrap(Cur) /\ HasSidebar(Cur) /\ HasSection(Cur) /\ HasInner(Cur)
      /\ AvailableHeight(Cur) > 0
      /\ Deviates(Cur))
     => ~Deviates(applyCurrentLayoutState(Cur))

\* C19: a drag session starts only on pointer-down over the handle while
\* the mode is MOVED: every step that takes isDragging from false to true
\* is a pointer-down on the handle in MOVED mode and registers both
\* listeners; a pointer-down on the handle while the mode is ORIGINAL
\* changes neither the drag state nor the registered pointer listeners.
C19_DragStartsOnlyWhenMoved ==
  [][/\ (~eng.isDragging /\ eng'.isDragging)
          => (/\ HandleMouseDown
              /\ Truthy(eng.isMoved)
              /\ env'.mouseMoveListener /\ env'.mouseUpListener)
     /\ (HandleMouseDown /\ ~Truthy(eng.isMoved))
          => (/\ eng'.isDragging = eng.isDragging
              /\ env'.mouseMoveListener = env.mouseMoveListener
              /\ env'.mouseUpListener = env.mouseUpListener)]_vars

\* the handle can be pressed while the mode is ORIGINAL and the drag state
\* is IDLE (a toggle back whose pass has not removed the handle yet), and
\* the press leaves the state as it is
C19_PressedInOriginal ==
  /\ ~Truthy(eng.isMoved)
  /\ NoPendingBatch
  /\ eng.resizeHandle /\ HandleInDoc(Cur) /\ dom.handleDisplay # "none"
  /\ ~eng.isDragging /\ ~env.mouseMoveListener /\ ~env.mouseUpListener
  /\ \A y \in PointerYs : Task(onMouseDown(Cur, y)) = Cur

\* C20: an exception thrown inside a reconciliation pass is not swallowed;
\* applyCurrentLayoutState raises it to its caller.  In every reachable
\* state, a pass that meets an exception ends by throwing; a frame callback
\* whose pass throws ends there without reaching its next statement (the
\* frame id is not cleared), and a start() whose pass throws ends there
\* without creating the failsafe interval.
C20_ExceptionReachesCaller ==
  \A fault \in {"early", "late"} :
    /\ applyCurrentLayoutStateTry(Cur, fault).thrown
    /\ \A f \in env.frames :
         frameCallback([Cur EXCEPT !.env.frames = @ \ {f}], fault).eng.animationFrameId
           = eng.animationFrameId
    /\ startTry(Cur, fault).env.intervals = env.intervals
    /\ startTry(Cur, fault).eng.failsafeIntervalId = eng.failsafeIntervalId

\* a frame callback ran to its pass and was cut short: the engine still
\* holds the id of a frame that is no longer pending
C20_FrameCallbackCutShort ==
  /\ Running
  /\ eng.animationFrameId # 0
  /\ eng.animationFrameId \notin env.frames

\* C21: transient absence aborts cleanly.  In every reachable state in
\* which the container, the upper region or the boundary marker is not
\* resolvable, or the mode is MOVED and the available height is not
\* positive, a reconciliation pass changes no inline style of container,
\* upper region or inner-content, re-parents neither control node and
\* raises no exception.
C21_AbortsWithoutWrites ==
  (\/ ~HasWrap(Cur) \/ ~HasSidebar(Cur) \/ ~HasSection(Cur)
   \/ (Truthy(eng.isMoved) /\ AvailableHeight(Cur) <= 0))
  => LET r == applyCurrentLayoutStateTry(Cur, "none")
     IN /\ ~r.thrown
        /\ r.s.dom.wrapStyle = dom.wrapStyle
        /\ r.s.dom.sidebarStyle = dom.sidebarStyle
        /\ r.s.dom.innerStyle = dom.innerStyle
        /\ r.s.dom.kids = dom.kids
        /\ r.s.dom.wrapperInInner = dom.wrapperInInner
        /\ r.s.dom.handleStale = dom.handleStale
        /\ r.s.dom.wrapperStale = dom.wrapperStale

\* a frame callback has run in MOVED mode with all nodes present and no
\* room, and the container is still unstyled
C21_AbortedForNoRoom ==
  /\ Running
  /\ Truthy(eng.isMoved)
  /\ HasWrap(Cur) /\ HasSidebar(Cur) /\ HasSection(Cur)
  /\ AvailableHeight(Cur) <= 0
  /\ dom.wrapStyle = NoWrapStyle
  /\ env.frames = {} /\ gh.winExecs >= 1

\* C22 (as stated): a reapply request that arrives while the scheduler is
\* throttling cancels no frame; a scheduled frame callback leaves the set
\* of pending callbacks only by firing or by stop().
C22_OnlyStopCancelsFrame ==
  [][(env.frames \ env'.frames # {}) => (FrameCallback \/ Stop)]_vars

\* C23 (as stated): in every reachable state the window resize listener is
\* registered only if the mode is MOVED, and the boolean guard is true
\* exactly when the listener is registered.
C23_ListenerOnlyWhileMoved ==
  /\ env.resizeListener => Truthy(eng.isMoved)
  /\ eng.bdResizeListenerAdded = env.resizeListener

\* C23, amended: the boolean guard is true exactly when the (single)
\* listener is registered, and the registration follows the mode at every
\* completed reconciliation pass, not at the toggle: a pass that completes
\* (container, upper region and marker resolvable, and room available if
\* the mode is MOVED) leaves the listener registered if and only if the
\* mode is MOVED.
C23_ListenerFollowsPass ==
  /\ eng.bdResizeListenerAdded = env.resizeListener
  /\ (/\ HasWrap(Cur) /\ HasSidebar(Cur) /\ HasSection(Cur)
      /\ (Truthy(eng.isMoved) => AvailableHeight(Cur) > 0))
     => LET p == applyCurrentLayoutState(Cur)
        IN /\ p.env.resizeListener = Truthy(eng.isMoved)
           /\ p.eng.bdResizeListenerAdded = p.env.resizeListener

\* a toggle back to ORIGINAL whose pass has not run yet: the listener of
\* the MOVED layout is still registered, and the pass will remove it
C23_RegisteredUntilPass ==
  /\ ~Truthy(eng.isMoved)
  /\ env.resizeListener /\ eng.bdResizeListenerAdded
  /\ HasWrap(Cur) /\ HasSidebar(Cur) /\ HasSection(Cur)
  /\ ~applyCurrentLayoutState(Cur).env.resizeListener

\* C24 (as stated): window resize, drag pointer-move and toggle activation
\* never write inline styles to the external tree in their own handler: a
\* step of one of these three handlers leaves the inline styles of
\* container, upper region and inner-content as they were.
C24_HandlersWriteNoStyle ==
  [][(DragWindowResize \/ DragMouseMove \/ DragToggle \/ ToggleClick)
     => (/\ dom'.wrapStyle = dom.wrapStyle
         /\ dom'.sidebarStyle = dom.sidebarStyle
         /\ dom'.innerStyle = dom.innerStyle)]_vars

\* C25: the in-memory proportion pair is changed only by a drag
\* pointer-move and by start() loading persisted values.  In every
\* reachable state the toggle handler, a reconciliation pass, an audit run,
\* the window resize handler, the absence handler and its timer, pointer
\* down and up, and stop() all return the pair they found; start() returns
\* the persisted pair if there is one and the pair it found otherwise.
C25_PairChangedOnlyByDrag ==
  LET Pair(s) == <<s.eng.sidebarHeightPercentage, s.eng.membersHeightPercentage>>
  IN /\ Pair(onButtonClick(Cur)) = Pair(Cur)
     /\ Pair(applyCurrentLayoutState(Cur)) = Pair(Cur)
     /\ \A below \in SUBSET AtTolerance(Cur) :
          Pair(checkAndReapplyLayout(Cur, below)) = Pair(Cur)
     /\ Pair(handleWindowResize(Cur)) = Pair(Cur)
     /\ Pair(handleMemberListAbsence(Cur)) = Pair(Cur)
     /\ Pair(absenceTimerCallback(Cur)) = Pair(Cur)
     /\ \A y \in DragYs : Pair(onMouseDown(Cur, y)) = Pair(Cur)
     /\ Pair(onMouseUp(Cur)) = Pair(Cur)
     /\ \A h \in {wrapperOnMouseOver(Cur), wrapperOnMouseOut(Cur),
                   buttonOnMouseOver(Cur), buttonOnMouseOut(Cur),
                   handleOnMouseOver(Cur), handleOnMouseOut(Cur)} :
          Pair(h) = Pair(Cur)
     /\ Pair(stop(Cur)) = Pair(Cur)
     /\ Pair(start(Cur)) = IF env.savedHeights # <<>> THEN env.savedHeights ELSE Pair(Cur)

\* a dragged pair, different from the default, that a pass has applied
\* after the pointer was released
C25_DraggedPairApplied ==
  /\ eng.sidebarHeightPercentage # 500
  /\ ~eng.isDragging
  /\ Truthy(eng.isMoved)
  /\ AvailableHeight(Cur) > 0
  /\ dom.sidebarStyle.height = AvailableHeight(Cur) * eng.sidebarHeightPercentage
  /\ dom.wrapStyle.height = AvailableHeight(Cur) * eng.membersHeightPercentage

\* C26: drag state machine.  In every reachable state a pointer-move while
\* IDLE changes nothing; a pointer-move while DRAGGING with the upper
\* region or the boundary marker unresolvable, or with no available
\* height, changes nothing either (proportions, persisted data, scheduler
\* and tree as they were); and a pointer-up returns the drag state to IDLE,
\* unregisters the move and up listeners and changes nothing else.
C26_DragNoOpsAndRelease ==
  /\ (\/ ~eng.isDragging
      \/ ~HasSidebar(Cur) \/ ~HasSection(Cur)
      \/ AvailableHeight(Cur) <= 0)
     => \A y \in DragYs, tieUpS, tieUpM \in BOOLEAN :
          onMouseMove(Cur, y, tieUpS, tieUpM) = Cur
  /\ onMouseUp(Cur) = [Cur EXCEPT !.eng.isDragging = FALSE,
                                  !.env.mouseMoveListener = FALSE,
                                  !.env.mouseUpListener = FALSE]

\* a drag session during which the pointer moves while the upper region is
\* missing or there is no room
C26_DraggingWithoutGeometry ==
  /\ eng.isDragging /\ env.mouseMoveListener /\ env.mouseUpListener
  /\ NoPendingBatch
  /\ (~HasSidebar(Cur) \/ AvailableHeight(Cur) <= 0)

\* C27: for every mutation batch, the change detector requests a reapply
\* if and only if the batch holds a node addition or removal, or a style
\* change whose target is the container, the upper region or a node with
\* the id bd-members-list-container, bd-move-button-wrapper or
\* bd-resize-handle; a batch of style changes on other nodes requests none.
C27_ReapplyIffRelevant ==
  \A batch \in SUBSET RecordKinds :
    LET relevant ==
          \/ "childList" \in batch \/ "wrapAdded" \in batch
          \/ "styleWrap" \in batch \/ "styleSidebar" \in batch
          \/ "styleInnerId" \in batch
          \/ "styleWrapper" \in batch \/ "styleHandle" \in batch
    IN observerCallback([Cur EXCEPT !.gh.owed = FALSE], batch).gh.owed = relevant

\* the plugin has started and nothing else has happened that could
\* request a reapply (no toggle, hence no drag and no resize listener): the
\* pending request was made by the change detector, for the batch of
\* records the first pass produced
C27_DetectorRequested ==
  /\ Running
  /\ env.savedState = "null" /\ env.savedHeights = <<>>
  /\ ~Truthy(eng.isMoved) /\ ~env.resizeListener
  /\ gh.owed
  /\ env.frames # {}

\* C28: after processing every mutation batch, whether or not a reapply
\* was requested, the change detector has queried the presence of the
\* container: if the container is absent exactly one absence timer is
\* pending, the one it has just started; if the container is present no
\* absence timer is pending.  In every state at most one absence timer is
\* pending, and it is the one the engine holds the id of.
C28_PresenceRecheckedEveryBatch ==
  /\ Cardinality(env.absTimers) <= 1
  /\ env.absTimers \subseteq {eng.memberListAbsenceTimer}
  /\ \A k \in RecordKinds :
       LET r == observerCallback([Cur EXCEPT !.env.batch = {}], {k})
       IN /\ ~HasWrap(Cur) => /\ r.eng.memberListAbsenceTimer # 0
                              /\ r.env.absTimers = {r.eng.memberListAbsenceTimer}
          /\ HasWrap(Cur) => /\ r.eng.memberListAbsenceTimer = 0
                             /\ r.env.absTimers = {}

\* the container is back while the absence timer is still pending and the
\* batch that reports it has not been processed yet
C28_BackWithTimerPending ==
  /\ Running
  /\ HasWrap(Cur)
  /\ env.absTimers # {}
  /\ env.batch # {}

\* C29: when an absence timer is pending and the container reappears
\* before it fires, processing the batch that reports the reappearance
\* cancels the timer and requests a scheduled reapply; and a timer callback
\* that finds the container present does not run the release procedure
\* (the upper-region styles stay as they are), requests a scheduled reapply
\* and clears the timer id.
C29_ReappearanceCancelsAndReapplies ==
  /\ (HasWrap(Cur) /\ env.absTimers # {} /\ env.batch # {} /\ env.observers # {})
     => LET r == observerCallback([Cur EXCEPT !.env.batch = {}, !.gh.owed = FALSE],
                                  env.batch)
        IN /\ r.env.absTimers = {}
           /\ r.eng.memberListAbsenceTimer = 0
           /\ r.gh.owed
           /\ r.dom.sidebarStyle = dom.sidebarStyle
  /\ HasWrap(Cur)
     => LET r == absenceTimerCallback([Cur EXCEPT !.gh.owed = FALSE])
        IN /\ ~r.gh.released
           /\ r.dom.sidebarStyle = dom.sidebarStyle
           /\ r.gh.owed
           /\ r.eng.memberListAbsenceTimer = 0

\* moved placement with the upper-region override in place: the container
\* was removed, the timer was started, and the container has been added
\* again while the timer is still pending
C29_ReappearedBeforeFiring ==
  /\ Running /\ Truthy(eng.isMoved)
  /\ HasWrap(Cur)
  /\ env.absTimers = {eng.memberListAbsenceTimer}
  /\ "childList" \in env.batch
  /\ dom.sidebarPresent /\ dom.sidebarStyle.height # Unset

\* C30: an audit run in which the container, the upper region, the
\* boundary marker or inner-content is not resolvable performs no check
\* and requests no reapply: it leaves engine, scheduler, tree and persisted
\* data exactly as they were.
C30_AuditSkipsSilently ==
  (~HasWrap(Cur) \/ ~HasSidebar(Cur) \/ ~HasSection(Cur) \/ ~HasInner(Cur))
    => \A below \in SUBSET AtTolerance(Cur) : checkAndReapplyLayout(Cur, below) = Cur

\* the audit interval is running, one of the four nodes is missing, and
\* the tree deviates from the layout of the mode (MOVED with an unstyled
\* container), so that a check would have requested a reapply
C30_AuditWithNodeMissing ==
  /\ Running
  /\ env.intervals # {}
  /\ NoPendingBatch
  /\ HasWrap(Cur) /\ ~HasInner(Cur)
  /\ Truthy(eng.isMoved)
  /\ dom.wrapStyle = NoWrapStyle
  /\ ~gh.owed

\* C31: in an audit run with all four nodes resolvable, a structural
\* mismatch for the current mode (a control node missing from the tree,
\* under the wrong parent, with the wrong display value or without its
\* child nodes; in ORIGINAL mode the drag handle attached) makes the audit
\* request exactly one scheduled
\* reapply and return: the run is one call of queueLayoutReapply, whatever
\* the style checks would have found.
C31_StructureMismatchRequestsOnce ==
  LET Controls(t) == IF ~t.eng.button \/ ~t.eng.wrapperDiv \/ ~t.eng.resizeHandle
                     THEN addMoveButton(t) ELSE t
      Prepared(t) == Controls(EnsureInnerId(t))
  IN (/\ HasWrap(Cur) /\ HasSidebar(Cur) /\ HasSection(Cur) /\ HasInner(Cur)
      /\ AuditStructureBad(Prepared(Cur)))
     => \A below \in SUBSET AtTolerance(Cur) :
          checkAndReapplyLayout(Cur, below) = queueLayoutReapply(Prepared(Cur))

\* the audit is about to run in ORIGINAL mode with the container still
\* styled and the toggle wrapper in the document, shown, and without its
\* button
C31_StructureAndStyleOff ==
  /\ Running /\ env.intervals # {} /\ NoPendingBatch
  /\ HasWrap(Cur) /\ HasSidebar(Cur) /\ HasSection(Cur) /\ HasInner(Cur)
  /\ ~Truthy(eng.isMoved)
  /\ WrapperInDoc(Cur) /\ dom.wrapperDisplay = "flex"
  /\ WrapperHasSub(Cur) /\ ~WrapperHasButton(Cur)
  /\ dom.wrapStyle.position = "fixed"


\* C32: in ORIGINAL mode with the four nodes present and a sound structure,
\* whenever an inline override the MOVED procedure can set is still on the
\* container (position, width, height, left, top, transform, min-width,
\* flex-direction, display), on the inner content (height, width,
\* overflow-y) or on the upper region (height, bottom padding), an audit run
\* made now requests a scheduled reapply.
C32_LeftoverOverride ==
  \/ dom.wrapStyle.position # "" \/ dom.wrapStyle.width # Unset
  \/ dom.wrapStyle.height # Unset \/ dom.wrapStyle.left # Unset
  \/ dom.wrapStyle.top # Unset \/ dom.wrapStyle.transform # ""
  \/ dom.wrapStyle.minWidth # "" \/ dom.wrapStyle.flexDirection # ""
  \/ dom.wrapStyle.display # ""
  \/ dom.innerStyle.height # Unset \/ dom.innerStyle.width # ""
  \/ dom.innerStyle.overflowY # ""
  \/ dom.sidebarStyle.height # Unset \/ dom.sidebarStyle.paddingBottom # ""

C32_OriginalAuditSound ==
  /\ HasWrap(Cur) /\ HasSidebar(Cur) /\ HasSection(Cur) /\ HasInner(Cur)
  /\ ~Truthy(eng.isMoved)
  /\ eng.button /\ eng.wrapperDiv /\ eng.resizeHandle
  /\ ~AuditStructureBad(EnsureInnerId(Cur))

C32_LeftoverRequestsReapply ==
  (C32_OriginalAuditSound /\ C32_LeftoverOverride)
    => \A below \in SUBSET AtTolerance(Cur) :
         checkAndReapplyLayout([Cur EXCEPT !.gh.owed = FALSE], below).gh.owed


\* C33: in MOVED mode with the four nodes present, a sound structure and
\* room for the panels, an audit run made now requests a scheduled reapply
\* whenever one of the audited properties is off from the value the
\* MOVED procedure would write now: container position, transform,
\* flex-direction and display (keyword differs), a set z-index, container
\* width, height, left and top (unset, or more than 0.1 px away),
\* upper-region height and bottom padding, inner-content height, width and
\* overflow-y.  When every keyword is equal and every length is less than
\* 0.1 px away, no reapply is requested.  At exactly 0.1 px the outcome is
\* the one of the floating-point subtraction and is left open.
C33_MovedAuditSound ==
  /\ HasWrap(Cur) /\ HasSidebar(Cur) /\ HasSection(Cur) /\ HasInner(Cur)
  /\ Truthy(eng.isMoved)
  /\ eng.button /\ eng.wrapperDiv /\ eng.resizeHandle
  /\ ~AuditStructureBad(EnsureInnerId(Cur))
  /\ AvailableHeight(Cur) > 0

C33_Deviation ==
  LET e == applyMovedLayoutStyles(Cur, TRUE,
             AvailableHeight(Cur) * eng.sidebarHeightPercentage,
             AvailableHeight(Cur) * eng.membersHeightPercentage,
             [width |-> SidebarWidth(Cur), left |-> SidebarLeft(Cur),
              bottom |-> SidebarBottom(Cur)]).dom
      Off(a, x) == a = Unset \/ a - x > PIXEL_TOLERANCE \/ x - a > PIXEL_TOLERANCE
  IN \/ \E p \in {"position", "transform", "flexDirection", "display", "zIndex"} :
          dom.wrapStyle[p] # e.wrapStyle[p]
     \/ \E p \in {"width", "height", "left", "top"} :
          Off(dom.wrapStyle[p], e.wrapStyle[p])
     \/ Off(dom.sidebarStyle.height, e.sidebarStyle.height)
     \/ dom.sidebarStyle.paddingBottom # e.sidebarStyle.paddingBottom
     \/ Off(dom.innerStyle.height, e.innerStyle.height)
     \/ dom.innerStyle.width # e.innerStyle.width
     \/ dom.innerStyle.overflowY # e.innerStyle.overflowY

C33_AuditRequestsIffDeviation ==
  C33_MovedAuditSound
    => \A below \in SUBSET AtTolerance(Cur) :
         LET requested == checkAndReapplyLayout([Cur EXCEPT !.gh.owed = FALSE], below).gh.owed
         IN /\ C33_Deviation => requested
            /\ (~C33_Deviation /\ AtTolerance(Cur) = {}) => ~requested

\* a sound MOVED layout on which one audited property has just been edited
C33_DeviationPending == C33_MovedAuditSound /\ C33_Deviation /\ ~NoPendingBatch

\* a sound MOVED layout whose upper region was edited by less than the tolerance
C33_WithinTolerance ==
  /\ C33_MovedAuditSound /\ ~C33_Deviation /\ AtTolerance(Cur) = {}
  /\ dom.wrapStyle.width # Unset /\ dom.wrapStyle.width # SidebarWidth(Cur)


\* C34: applied to the state the MOVED procedure produces from the current
\* one, the ORIGINAL procedure leaves no inline property of the MOVED
\* procedure on the container or on the inner content, and its call of the
\* shared release procedure leaves neither the height nor the bottom
\* padding on the upper region; applied to any state, the ORIGINAL
\* procedure a second time changes nothing.
C34_AfterMoved ==
  applyMovedLayoutStyles(EnsureInnerId(Cur), HasInner(Cur),
    AvailableHeight(Cur) * eng.sidebarHeightPercentage,
    AvailableHeight(Cur) * eng.membersHeightPercentage,
    [width |-> SidebarWidth(Cur), left |-> SidebarLeft(Cur),
     bottom |-> SidebarBottom(Cur)])

C34_OriginalUndoesMoved ==
  LET once == applyOriginalLayoutStyles(Cur)
      twice == applyOriginalLayoutStyles(once)
      undone == applyOriginalLayoutStyles(C34_AfterMoved)
  IN /\ (HasWrap(Cur) /\ HasSidebar(Cur))
          => /\ undone.dom.wrapStyle = NoWrapStyle
             /\ undone.dom.innerStyle = NoInnerStyle
             /\ undone.dom.sidebarStyle.height = Unset
             /\ undone.dom.sidebarStyle.paddingBottom = ""
             /\ resetSidebarListStyles(C34_AfterMoved).dom.sidebarStyle.height = Unset
             /\ resetSidebarListStyles(C34_AfterMoved).dom.sidebarStyle.paddingBottom = ""
     /\ twice.dom = once.dom /\ twice.eng = once.eng /\ twice.env = once.env

\* the MOVED procedure has styled the three nodes
C34_MovedStylesInPlace ==
  /\ Running /\ HasWrap(Cur) /\ HasSidebar(Cur) /\ HasInner(Cur)
  /\ Truthy(eng.isMoved) /\ AvailableHeight(Cur) > 0
  /\ dom.wrapStyle = C34_AfterMoved.dom.wrapStyle
  /\ dom.innerStyle = C34_AfterMoved.dom.innerStyle
  /\ dom.sidebarStyle = C34_AfterMoved.dom.sidebarStyle
  /\ dom.wrapStyle.position = "fixed" /\ dom.sidebarStyle.paddingBottom = "0px"


\* C35: once only the engine's own frame callbacks, cooldown timers,
\* mutation deliveries and absence timers run (no host mutation, no user
\* input, no start or stop, no audit tick), the scheduler of a running
\* engine comes to rest: from some point on it is not throttling, has no
\* pending call and has no frame scheduled.
C35_SchedulerSettles == <>[][Settling]_vars => <>[](Running => Idle)


\* C36: when the container in the document is a fresh node (no inline
\* style, no child of the plugin in it or in its inner content), as after the
\* host has replaced it, a MOVED pass that has the four nodes and room for
\* the panels writes the overrides on that node and leaves the drag handle
\* and the toggle wrapper as its children.  In every state a drag handle or
\* a toggle wrapper attached to the document is the node the engine holds a
\* reference to, and it is attached at one place only; the engine creates
\* a node only while it holds no reference, so no second handle or wrapper
\* is ever attached.
C36_FreshContainer ==
  /\ HasWrap(Cur) /\ HasSidebar(Cur) /\ HasSection(Cur) /\ HasInner(Cur)
  /\ Truthy(eng.isMoved) /\ AvailableHeight(Cur) > 0
  /\ dom.wrapStyle = NoWrapStyle /\ dom.innerStyle = NoInnerStyle
  /\ dom.kids = <<>> /\ ~dom.wrapperInInner

C36_Count(x) == Cardinality({i \in DOMAIN dom.kids : dom.kids[i] = x})

C36_PassUsesNodesInDocument ==
  LET p == applyCurrentLayoutState(Cur)
  IN /\ C36_FreshContainer
          => /\ p.dom.wrapStyle.position = "fixed"
             /\ p.dom.wrapStyle.height = AvailableHeight(Cur) * eng.membersHeightPercentage
             /\ p.dom.innerStyle.overflowY = "auto"
             /\ HandleInDoc(p) /\ HandleInWrap(p) /\ ~p.dom.handleStale
             /\ WrapperInDoc(p) /\ WrapperInWrap(p) /\ ~p.dom.wrapperStale
     /\ HandleInDoc(Cur) => eng.resizeHandle /\ C36_Count("handle") = 1 /\ ~dom.handleStale
     /\ WrapperInDoc(Cur)
          => /\ eng.wrapperDiv /\ ~dom.wrapperStale
             /\ C36_Count("wrapper") + (IF dom.wrapperInInner THEN 1 ELSE 0) = 1

\* the host has replaced the container while the controls sat in the old one
C36_ContainerReplaced ==
  /\ Running /\ C36_FreshContainer /\ dom.handleStale /\ dom.wrapperStale
  /\ eng.resizeHandle /\ eng.wrapperDiv


\* C37: in every reachable state, also after stop(), the throttling flag is
\* true exactly when a cooldown timer is pending, and a call is marked
\* pending only while the throttling flag is true.
C37_ThrottlingIffCooldownPending ==
  /\ eng.isThrottling <=> (eng.reapplyTimeout # 0 /\ eng.reapplyTimeout \in env.cooldowns)
  /\ eng.pendingThrottleCall => eng.isThrottling


\* C38: in a behaviour in which stop() has been called (whatever the
\* scheduler was doing at that moment) and in which, from some point on,
\* only the engine's own callbacks run, every reapply request made while the
\* engine runs is eventually served by an execution of
\* applyCurrentLayoutState: from some point on no request is owed while the
\* engine is running.
C38_RecoversAfterRestart ==
  <>[][Settling]_vars => (<>(gh.stops > 0) => <>[](Running => ~gh.owed))


\* C39: while the container is not in the document, a reconciliation pass,
\* the window resize handler (at any window size), an audit run, a drag
\* pointer-move and the toggle each leave the upper region's inline height
\* and bottom padding as they are or remove them: none of them sets the
\* override.  In particular a released upper region stays released for as
\* long as the container is missing.
C39_Kept(t) ==
  /\ t.dom.sidebarStyle.height \in {dom.sidebarStyle.height, Unset}
  /\ t.dom.sidebarStyle.paddingBottom \in {dom.sidebarStyle.paddingBottom, ""}

C39_NoSidebarOverrideWithoutContainer ==
  ~HasWrap(Cur) =>
    /\ C39_Kept(Task(applyCurrentLayoutState(Cur)))
    /\ \A g \in MainGeoms : C39_Kept(Task(handleWindowResize([Cur EXCEPT !.dom.geom = g])))
    /\ \A below \in SUBSET AtTolerance(Cur) :
         C39_Kept(Task(checkAndReapplyLayout(Cur, below)))
    /\ \A y \in PointerYs, tieUpS, tieUpM \in BOOLEAN :
         C39_Kept(Task(onMouseMove(Cur, y, tieUpS, tieUpM)))
    /\ C39_Kept(Task(onButtonClick(Cur)))

\* the container is missing and the upper region released, while a drag is
\* in progress and the resize listener is registered
C39_ReleasedWhileAbsent ==
  /\ Running /\ ~HasWrap(Cur) /\ HasSidebar(Cur) /\ HasSection(Cur)
  /\ AvailableHeight(Cur) > 0
  /\ Truthy(eng.isMoved) /\ eng.isDragging /\ env.resizeListener
  /\ dom.sidebarStyle.height = Unset /\ dom.sidebarStyle.paddingBottom = ""
  /\ gh.releases > 0


\* C40: for every pointer position, in every state with room, the two
\* fractions clamped independently by onMouseMove (upper = raw, lower =
\* 1 - raw) sum to exactly 1, so the redistribution branch is not taken, and
\* the pair that is stored has both values in [0.05, 0.95].
C40_ClampedPairSumsToOne ==
  \A y \in DragYs :
    LET avail == AvailableHeight(Cur)
        top == Geom(Cur).top
        rawS == 2000 * (y - top)
        rawM == 2000 * avail - rawS
    IN avail > 0 =>
         /\ Clamp(rawS, avail) + Clamp(rawM, avail) = 2000 * avail
         /\ \A tieUpS, tieUpM \in BOOLEAN :
              LET p == DragPair(y, top, avail, tieUpS, tieUpM)
              IN /\ ~p.redistributed
                 /\ p.sidebar \in MIN_HEIGHT_PERCENTAGE .. 1000 - MIN_HEIGHT_PERCENTAGE
                 /\ p.members \in MIN_HEIGHT_PERCENTAGE .. 1000 - MIN_HEIGHT_PERCENTAGE

\* a drag with the pointer below the whole column: both fractions were
\* clamped, the upper one to 0.95 and the lower one to 0.05
C40_BothClamped ==
  /\ eng.isDragging
  /\ eng.sidebarHeightPercentage = 1000 - MIN_HEIGHT_PERCENTAGE
  /\ eng.membersHeightPercentage = MIN_HEIGHT_PERCENTAGE

=============================================================================
